---- MODULE Spec2Model ----
(***************************************************************************)
(* Connectivity state machine of the ESP32 Smart Captive Portal            *)
(* (src/src/wifi_manager.cpp), with the link driver (WiFi), the DNS server *)
(* of the captive portal and the Preferences store as its environment, and *)
(* its telemetry engine (src/src/sensor_manager.cpp), in the second half   *)
(* of the module, followed by the wait loop of connectToWiFi, iteration by *)
(* iteration, and the button handler of the host (src/src/main.cpp).       *)
(*                                                                         *)
(* Every function of WiFiManager is an operator from a state record to a   *)
(* state record, so that a handler which calls other functions is the      *)
(* composition of their operators, in the order of the code.  The actions  *)
(* at the end apply one public operation (or one event of the environment) *)
(* to the current state.                                                   *)
(*                                                                         *)
(* Strings are sequences of characters.  The millisecond clock is an       *)
(* unsigned counter that wraps, observed on a grid of Quantum ms.          *)
(***************************************************************************)
EXTENDS Integers, Sequences, FiniteSets, TLC

\* config.h
WIFI_CONNECT_TIMEOUT_MS == 20000
WIFI_RECONNECT_INTERVAL == 30000
WIFI_MAX_RECONNECT_ATTEMPTS == 5
\* wifi_manager.cpp: the longest SSID _isValidSSID accepts
MAX_SSID_LENGTH == 32
\* wifi_manager.cpp: delay(1000) after WiFi.disconnect(), in connectToWiFi and
\* in _attemptReconnection
WAIT_POLL_MS == 500
BUTTON_DEBOUNCE_MS == 50
BUTTON_LONG_PRESS_MS == 5000
BUTTON_VERY_LONG_PRESS_MS == 10000
LOOP_DELAY_MS == 10
DISCONNECT_DELAY_MS == 1000


\* config.h, the telemetry engine.  The readings are floats in the code; the
\* model counts them in hundredths of their unit (22.0 degrees is 2200).
SENSOR_UPDATE_INTERVAL == 2000
SENSOR_HISTORY_SIZE == 50
STATS_UPDATE_INTERVAL == 10000
TEMP_BASE == 2200
TEMP_VARIATION == 500
HUMIDITY_BASE == 4500
HUMIDITY_VARIATION == 2000
PRESSURE_BASE == 101325
PRESSURE_VARIATION == 3000
BATTERY_DRAIN_RATE == 1
BATTERY_RECHARGE_THRESHOLD == 1000
BATTERY_RECHARGE_RATE == 500
MOTION_DURATION_MS == 5000

\* sensor_manager.cpp: the floor of setHistorySize and of setUpdateInterval,
\* the initial light base and battery level, the variation of the light
\* level, the noise levels of the four channels, the bounds of a percentage
\* and the floor of the battery health.
MIN_HISTORY_SIZE == 10
MIN_UPDATE_INTERVAL == 100
LIGHT_BASE == 5000
LIGHT_VARIATION == 1000
INITIAL_BATTERY_LEVEL == 8500
TEMP_NOISE == 10
HUMIDITY_NOISE == 50
PRESSURE_NOISE == 50
LIGHT_NOISE == 100
PERCENT_MIN == 0
PERCENT_MAX == 10000
BATTERY_HEALTH_FLOOR == 5000

\* unsigned long: millis() and every difference of two clock readings are
\* taken modulo a power of two.  On the ESP32 it is 2^32; the numbers of the
\* model checker stop at 2^31 - 1, so the model's clock wraps at 2^30, with
\* the same modular arithmetic.
ULONG_MOD == 2 ^ 30

\* The grid on which the clock is observed: one reconnect interval.  A delay
\* or a wait ends on the grid point nearest to its duration: the one-second
\* delay after WiFi.disconnect() does not move the observed clock, the wait
\* of connectToWiFi for its timeout moves it by one step.  Two clock readings
\* are then 0, one, two, ... intervals apart, which covers "not yet elapsed",
\* "just elapsed" and "long elapsed".
Quantum == WIFI_RECONNECT_INTERVAL

\* The host loop may advance the clock by MaxElapsed milliseconds after a boot
\* (and again after the clock has come close to its wrap-around).
MaxElapsed == 180000

\* How long before the wrap-around of millis() the long-uptime runs start.
WrapLead == 2 * Quantum
NearWrap == ULONG_MOD - WrapLead

\* wifi_manager.cpp: the longest access-point SSID _sanitizeSSID returns
AP_SSID_MAX_LENGTH == 32
\* main.cpp, loadConfiguration: the lengths of a device name
DEVICE_NAME_MIN_LENGTH == 3
DEVICE_NAME_MAX_LENGTH == 32

AP_SSID_PREFIX == <<"E", "S", "P", "3", "2", "-">>
DEFAULT_DEVICE_NAME ==
    <<"E", "S", "P", "3", "2", "-", "S", "m", "a", "r", "t", "-",
      "D", "e", "v", "i", "c", "e">>

PREF_WIFI_SSID == "wifi_ssid"
PREF_WIFI_PASSWORD == "wifi_password"

EmptyString == << >>
HomeNet == <<"H", "o", "m", "e">>
LabNet == <<"L", "a", "b">>
LongSSID == [i \in 1..(MAX_SSID_LENGTH + 1) |-> "x"]
HomeKey == <<"p", "a", "s", "s", "w", "o", "r", "d">>

\* Device names the host may have stored: the default, a short one with a
\* space and an underscore, the longest one whose access-point SSID is not
\* cut, the shortest one whose SSID is cut, and one of the greatest length.
ShortName == <<"M", "y", "_", "E", "S", "P", " ", "1">>
NameOfLength(n) == [i \in 1..n |-> IF i % 5 = 0 THEN "_" ELSE "n"]
DeviceNames ==
    { DEFAULT_DEVICE_NAME, ShortName,
      NameOfLength(AP_SSID_MAX_LENGTH - Len(AP_SSID_PREFIX)),
      NameOfLength(AP_SSID_MAX_LENGTH - Len(AP_SSID_PREFIX) + 1),
      NameOfLength(DEVICE_NAME_MAX_LENGTH) }

\* The (ssid, password) pairs a caller passes to connectToWiFi.
ConnectInputs ==
    { <<EmptyString, HomeKey>>, <<HomeNet, HomeKey>>,
      <<LabNet, EmptyString>>, <<LongSSID, EmptyString>> }

\* Passwords of every kind of length: none, too short, the shortest and the
\* longest the NetworkCredentials allow, too long.
MIN_PASSWORD_LENGTH == 8
MAX_PASSWORD_LENGTH == 63
KeyOfLength(n) == [i \in 1..n |-> "k"]
PasswordInputs ==
    { <<HomeNet, EmptyString>>,
      <<HomeNet, KeyOfLength(MIN_PASSWORD_LENGTH - 1)>>,
      <<HomeNet, KeyOfLength(MIN_PASSWORD_LENGTH)>>,
      <<LabNet, KeyOfLength(MAX_PASSWORD_LENGTH)>>,
      <<LabNet, KeyOfLength(MAX_PASSWORD_LENGTH + 1)>> }

\* What the link does while connectToWiFi waits: it reports connected after
\* `waited` ms (at most the timeout), or it is still down when the timeout
\* has elapsed.
ConnectOutcomes ==
    { [waited |-> 0, link |-> "up"],
      [waited |-> WIFI_CONNECT_TIMEOUT_MS, link |-> "up"],
      [waited |-> WIFI_CONNECT_TIMEOUT_MS, link |-> "down"] }

\* The time between two operations of the host loop.
TickSteps == {0, Quantum}

UAdd(a, b) == (a + b) % ULONG_MOD
USub(a, b) == (a - b + ULONG_MOD) % ULONG_MOD
OnGrid(ms) == ((2 * ms + Quantum) \div (2 * Quantum)) * Quantum

Count(seq, x) == Cardinality({i \in DOMAIN seq : seq[i] = x})
HasCall(seq, f) == \E i \in DOMAIN seq : seq[i].f = f

----------------------------------------------------------------------------
(* The environment: clock, notification sinks, Preferences, link driver.   *)

Millis(s) == s.now

Delay(s, ms) == [s EXCEPT !.now = UAdd(s.now, OnGrid(ms))]

\* A registered callback is invoked: the notification is logged.
Fire(s, n) == [s EXCEPT !.notif = Append(s.notif, n)]

PrefsGetString(p, key, default) ==
    IF \E kv \in p : kv[1] = key
    THEN (CHOOSE kv \in p : kv[1] = key)[2]
    ELSE default

PrefsRemove(p, key) == {kv \in p : kv[1] # key}

PrefsPutString(p, key, value) == PrefsRemove(p, key) \cup {<<key, value>>}

PrefsHasKey(p, key) == \E kv \in p : kv[1] = key

\* WiFi.status() == WL_CONNECTED
WiFiConnected(s) == s.link = "up"

\* WiFi.disconnect(): the station leaves its network and stops trying.
WiFiDisconnect(s) ==
    [s EXCEPT !.link = "down", !.staBegun = FALSE,
              !.calls = Append(s.calls, [f |-> "disconnect", ssid |-> EmptyString,
                                         password |-> EmptyString, ok |-> TRUE])]

\* WiFi.begin(ssid, password): the station starts connecting.
WiFiBegin(s, ssid, password) ==
    [s EXCEPT !.link = "down", !.staBegun = TRUE,
              !.staSSID = ssid, !.staPassword = password,
              !.calls = Append(s.calls, [f |-> "begin", ssid |-> ssid,
                                         password |-> password, ok |-> TRUE])]

\* WiFi.softAP(_apSSID, ...): the driver starts the access point, or refuses
\* (ok = FALSE).
WiFiSoftAP(s, ok) ==
    [s EXCEPT !.calls = Append(s.calls, [f |-> "softAP", ssid |-> s.apSSID,
                                         password |-> EmptyString, ok |-> ok])]

\* WiFi.softAPdisconnect(true)
WiFiSoftAPDisconnect(s) ==
    [s EXCEPT !.calls = Append(s.calls, [f |-> "softAPdisconnect", ssid |-> EmptyString,
                                         password |-> EmptyString, ok |-> TRUE])]

----------------------------------------------------------------------------
(* WiFiManager, private methods.                                           *)

\* Mutant: the upper bound of the length check is missing.
IsValidSSID_NoUpperBound(ssid) == Len(ssid) > 0

IsValidSSID(ssid) == Len(ssid) > 0 /\ Len(ssid) <= MAX_SSID_LENGTH

\* _isValidPassword: defined by the class, called by none of its methods.
IsValidPassword(password) ==
    Len(password) = 0
      \/ (Len(password) >= MIN_PASSWORD_LENGTH /\ Len(password) <= MAX_PASSWORD_LENGTH)

\* String::replace of " " and of "_" by "-".
ReplaceInvalid(ssid) ==
    [i \in 1..Len(ssid) |-> IF ssid[i] \in {" ", "_"} THEN "-" ELSE ssid[i]]

\* Mutant: the length is not limited.
SanitizeSSID_NoLimit(ssid) == ReplaceInvalid(ssid)

SanitizeSSID(ssid) ==
    LET sanitized == ReplaceInvalid(ssid)
    IN IF Len(sanitized) > AP_SSID_MAX_LENGTH
       THEN SubSeq(sanitized, 1, AP_SSID_MAX_LENGTH)
       ELSE sanitized

SetDeviceName(s, name) ==
    [s EXCEPT !.deviceName = name,
              !.apSSID = SanitizeSSID(AP_SSID_PREFIX \o name)]

LoadWiFiCredentials(s) ==
    [s EXCEPT !.connectedSSID = PrefsGetString(s.prefs, PREF_WIFI_SSID, EmptyString),
              !.connectedPassword = PrefsGetString(s.prefs, PREF_WIFI_PASSWORD, EmptyString)]

SaveWiFiCredentials(s) ==
    [s EXCEPT !.prefs = PrefsPutString(
                            PrefsPutString(s.prefs, PREF_WIFI_SSID, s.connectedSSID),
                            PREF_WIFI_PASSWORD, s.connectedPassword)]

ClearWiFiCredentials(s) ==
    [s EXCEPT !.prefs = PrefsRemove(PrefsRemove(s.prefs, PREF_WIFI_SSID), PREF_WIFI_PASSWORD),
              !.connectedSSID = EmptyString,
              !.connectedPassword = EmptyString]

SetupCaptivePortal(s) == [s EXCEPT !.dnsServer = TRUE, !.dnsRunning = TRUE]

StopCaptivePortal(s) ==
    IF s.dnsServer THEN [s EXCEPT !.dnsRunning = FALSE] ELSE s

----------------------------------------------------------------------------
(* WiFiManager, access point management.                                   *)

\* Mutant: the check for an access point that is already active is missing.
StartAccessPoint_NoGuard(s, apOk) ==
    LET s1 == WiFiSoftAP(s, apOk)
    IN IF apOk
       THEN Fire(SetupCaptivePortal([s1 EXCEPT !.isAPActive = TRUE]), "apStarted")
       ELSE s1

\* Mutant: the result of WiFi.softAP is ignored.
StartAccessPoint_IgnoresRefusal(s, apOk) ==
    IF s.isAPActive THEN s
    ELSE Fire(SetupCaptivePortal([WiFiSoftAP(s, apOk) EXCEPT !.isAPActive = TRUE]),
              "apStarted")

StartAccessPoint(s, apOk) ==
    IF s.isAPActive THEN s
    ELSE LET s1 == WiFiSoftAP(s, apOk)
         IN IF apOk
            THEN Fire(SetupCaptivePortal([s1 EXCEPT !.isAPActive = TRUE]), "apStarted")
            ELSE s1

\* Mutant: the access point is stopped and the captive portal is left running.
StopAccessPoint_KeepsPortal(s) ==
    IF ~s.isAPActive THEN s
    ELSE [WiFiSoftAPDisconnect(s) EXCEPT !.isAPActive = FALSE]

StopAccessPoint(s) ==
    IF ~s.isAPActive THEN s
    ELSE [WiFiSoftAPDisconnect(StopCaptivePortal(s)) EXCEPT !.isAPActive = FALSE]

----------------------------------------------------------------------------
(* WiFiManager, connection management.                                     *)

\* The wait loop of connectToWiFi, as a whole: it ends when the link reports
\* connected or when the timeout has elapsed.
WaitForConnection(s, w) ==
    [s EXCEPT !.now = UAdd(s.now, OnGrid(w.waited)), !.link = w.link]

\* Mutant: the credentials are saved when they are stored, before the link
\* is known to come up.
ConnectToWiFi_SavesEarly(s, ssid, password, w, apOk) ==
    IF ~IsValidSSID(ssid) THEN [st |-> s, ret |-> FALSE]
    ELSE
      LET s1 == IF s.isConnected
                THEN Delay(WiFiDisconnect(s), DISCONNECT_DELAY_MS)
                ELSE s
          s2 == SaveWiFiCredentials([s1 EXCEPT !.connectedSSID = ssid,
                                               !.connectedPassword = password,
                                               !.reconnectAttempts = 0])
          s3 == WaitForConnection(WiFiBegin(s2, ssid, password), w)
      IN IF WiFiConnected(s3)
         THEN LET s4 == [s3 EXCEPT !.isConnected = TRUE, !.shouldReconnect = TRUE]
                  s5 == IF s4.isAPActive THEN StopAccessPoint(s4) ELSE s4
              IN [st |-> Fire(s5, "connected"), ret |-> TRUE]
         ELSE [st |-> IF ~s3.isAPActive THEN StartAccessPoint(s3, apOk) ELSE s3,
               ret |-> FALSE]

\* The condition of the wait loop of connectToWiFi.
\* Mutant: the elapsed time is a signed difference.
WaitLoopContinues_SignedElapsed(s, startTime) ==
    ~WiFiConnected(s) /\ Millis(s) - startTime < WIFI_CONNECT_TIMEOUT_MS

WaitLoopContinues(s, startTime) ==
    ~WiFiConnected(s) /\ USub(Millis(s), startTime) < WIFI_CONNECT_TIMEOUT_MS

\* connectToWiFi with a valid SSID, up to the wait loop: the current
\* connection is dropped, the credentials are taken and the station begins.
ConnectToWiFiStart(s, ssid, password) ==
    LET s1 == IF s.isConnected
              THEN Delay(WiFiDisconnect(s), DISCONNECT_DELAY_MS)
              ELSE s
        s2 == [s1 EXCEPT !.connectedSSID = ssid,
                         !.connectedPassword = password,
                         !.reconnectAttempts = 0]
    IN WiFiBegin(s2, ssid, password)

\* connectToWiFi after the wait loop.
ConnectToWiFiFinish(s, apOk) ==
    IF WiFiConnected(s)
    THEN LET s4 == SaveWiFiCredentials(
                       [s EXCEPT !.isConnected = TRUE, !.shouldReconnect = TRUE])
             s5 == IF s4.isAPActive THEN StopAccessPoint(s4) ELSE s4
         IN [st |-> Fire(s5, "connected"), ret |-> TRUE]
    ELSE [st |-> IF ~s.isAPActive THEN StartAccessPoint(s, apOk) ELSE s,
          ret |-> FALSE]

ConnectToWiFi(s, ssid, password, w, apOk) ==
    IF ~IsValidSSID(ssid) THEN [st |-> s, ret |-> FALSE]
    ELSE ConnectToWiFiFinish(
             WaitForConnection(ConnectToWiFiStart(s, ssid, password), w), apOk)

\* Mutant: the guard on _isConnected is missing.
DisconnectWiFi_Unconditional(s) ==
    Fire([WiFiDisconnect([s EXCEPT !.shouldReconnect = FALSE])
             EXCEPT !.isConnected = FALSE], "disconnected")

DisconnectWiFi(s) ==
    IF s.isConnected
    THEN Fire([WiFiDisconnect([s EXCEPT !.shouldReconnect = FALSE])
                  EXCEPT !.isConnected = FALSE], "disconnected")
    ELSE s

ResetWiFiSettings(s, apOk) ==
    StartAccessPoint(ClearWiFiCredentials(DisconnectWiFi(s)), apOk)

----------------------------------------------------------------------------
(* WiFiManager, the main loop handler.                                     *)

\* Mutant: a detected loss is notified and the connection flag is kept.
HandleWiFiEvents_KeepsFlag(s) ==
    IF s.isConnected /\ ~WiFiConnected(s)
    THEN LET s1 == Fire(s, "disconnected")
         IN IF s1.shouldReconnect
            THEN [s1 EXCEPT !.lastReconnectAttempt = Millis(s1)]
            ELSE s1
    ELSE s

HandleWiFiEvents(s) ==
    IF s.isConnected /\ ~WiFiConnected(s)
    THEN LET s1 == Fire([s EXCEPT !.isConnected = FALSE], "disconnected")
         IN IF s1.shouldReconnect
            THEN [s1 EXCEPT !.lastReconnectAttempt = Millis(s1)]
            ELSE s1
    ELSE s

\* Mutant: the attempt counter is compared with <= instead of <.
AttemptReconnection_OffByOne(s, apOk) ==
    LET currentTime == Millis(s)
    IN IF USub(currentTime, s.lastReconnectAttempt) >= WIFI_RECONNECT_INTERVAL
       THEN IF s.reconnectAttempts <= WIFI_MAX_RECONNECT_ATTEMPTS
            THEN LET s1 == Delay(WiFiDisconnect(s), DISCONNECT_DELAY_MS)
                     s2 == WiFiBegin(s1, s1.connectedSSID, s1.connectedPassword)
                 IN [s2 EXCEPT !.reconnectAttempts = s.reconnectAttempts + 1,
                               !.lastReconnectAttempt = currentTime]
            ELSE LET s1 == [s EXCEPT !.shouldReconnect = FALSE,
                                     !.reconnectAttempts = 0]
                 IN IF ~s1.isAPActive THEN StartAccessPoint(s1, apOk) ELSE s1
       ELSE s

\* Mutant: the fallback is taken in the tick of the last attempt, as soon as
\* the counter reaches the maximum.
AttemptReconnection_FallsBackAtOnce(s, apOk) ==
    LET currentTime == Millis(s)
    IN IF USub(currentTime, s.lastReconnectAttempt) >= WIFI_RECONNECT_INTERVAL
       THEN LET s1 == Delay(WiFiDisconnect(s), DISCONNECT_DELAY_MS)
                s2 == WiFiBegin(s1, s1.connectedSSID, s1.connectedPassword)
                s3 == [s2 EXCEPT !.reconnectAttempts = s.reconnectAttempts + 1,
                                 !.lastReconnectAttempt = currentTime]
            IN IF s3.reconnectAttempts < WIFI_MAX_RECONNECT_ATTEMPTS
               THEN s3
               ELSE LET s4 == [s3 EXCEPT !.shouldReconnect = FALSE]
                    IN IF ~s4.isAPActive THEN StartAccessPoint(s4, apOk) ELSE s4
       ELSE s

\* Mutant: when the attempts have run out nothing is done: the machine stays
\* armed and never falls back.
AttemptReconnection_NoFallback(s, apOk) ==
    LET currentTime == Millis(s)
    IN IF USub(currentTime, s.lastReconnectAttempt) >= WIFI_RECONNECT_INTERVAL
       THEN IF s.reconnectAttempts < WIFI_MAX_RECONNECT_ATTEMPTS
            THEN LET s1 == Delay(WiFiDisconnect(s), DISCONNECT_DELAY_MS)
                     s2 == WiFiBegin(s1, s1.connectedSSID, s1.connectedPassword)
                 IN [s2 EXCEPT !.reconnectAttempts = s.reconnectAttempts + 1,
                               !.lastReconnectAttempt = currentTime]
            ELSE s
       ELSE s

\* Mutant: an attempt is made whether or not the reconnect interval has
\* elapsed.
AttemptReconnection_NoInterval(s, apOk) ==
    LET currentTime == Millis(s)
    IN IF s.reconnectAttempts < WIFI_MAX_RECONNECT_ATTEMPTS
       THEN LET s1 == Delay(WiFiDisconnect(s), DISCONNECT_DELAY_MS)
                s2 == WiFiBegin(s1, s1.connectedSSID, s1.connectedPassword)
            IN [s2 EXCEPT !.reconnectAttempts = s.reconnectAttempts + 1,
                          !.lastReconnectAttempt = currentTime]
       ELSE LET s1 == [s EXCEPT !.shouldReconnect = FALSE,
                                !.reconnectAttempts = 0]
            IN IF ~s1.isAPActive THEN StartAccessPoint(s1, apOk) ELSE s1

AttemptReconnection(s, apOk) ==
    LET currentTime == Millis(s)
    IN IF USub(currentTime, s.lastReconnectAttempt) >= WIFI_RECONNECT_INTERVAL
       THEN IF s.reconnectAttempts < WIFI_MAX_RECONNECT_ATTEMPTS
            THEN LET s1 == Delay(WiFiDisconnect(s), DISCONNECT_DELAY_MS)
                     s2 == WiFiBegin(s1, s1.connectedSSID, s1.connectedPassword)
                 IN [s2 EXCEPT !.reconnectAttempts = s.reconnectAttempts + 1,
                               !.lastReconnectAttempt = currentTime]
            ELSE LET s1 == [s EXCEPT !.shouldReconnect = FALSE,
                                     !.reconnectAttempts = 0]
                 IN IF ~s1.isAPActive THEN StartAccessPoint(s1, apOk) ELSE s1
       ELSE s

\* Mutant: the notification is fired whenever the link is up.
UpdateConnectionStatus_IgnoresFlag(s) ==
    IF WiFiConnected(s)
    THEN Fire([s EXCEPT !.isConnected = TRUE, !.reconnectAttempts = 0], "connected")
    ELSE s

\* Mutant: a promotion arms reconnection again.
UpdateConnectionStatus_Rearms(s) ==
    IF WiFiConnected(s) /\ ~s.isConnected
    THEN Fire([s EXCEPT !.isConnected = TRUE, !.reconnectAttempts = 0,
                        !.shouldReconnect = TRUE], "connected")
    ELSE s

UpdateConnectionStatus(s) ==
    IF WiFiConnected(s) /\ ~s.isConnected
    THEN Fire([s EXCEPT !.isConnected = TRUE, !.reconnectAttempts = 0], "connected")
    ELSE s

\* _dnsServer->processNextRequest() answers queries and changes no state.
HandleClient(s, apOk) ==
    LET s1 == HandleWiFiEvents(s)
        s2 == IF s1.shouldReconnect /\ ~s1.isConnected
              THEN AttemptReconnection(s1, apOk)
              ELSE s1
    IN UpdateConnectionStatus(s2)

----------------------------------------------------------------------------
(* WiFiManager, initialization and shutdown.                               *)

\* begin(): `tried` tells whether a client connection was attempted, `ret`
\* what connectToWiFi returned.
\* Mutant: begin starts the access point whatever connectToWiFi returned.
Begin_AlwaysStartsAP(s, deviceName, w, apOk1, apOk2) ==
    LET s1 == LoadWiFiCredentials(SetDeviceName(s, deviceName))
    IN IF Len(s1.connectedSSID) > 0
       THEN LET r == ConnectToWiFi(s1, s1.connectedSSID, s1.connectedPassword, w, apOk1)
            IN [st |-> StartAccessPoint(r.st, apOk2), tried |-> TRUE, ret |-> r.ret]
       ELSE [st |-> StartAccessPoint(s1, apOk1), tried |-> FALSE, ret |-> FALSE]

Begin(s, deviceName, w, apOk1, apOk2) ==
    LET s1 == LoadWiFiCredentials(SetDeviceName(s, deviceName))
    IN IF Len(s1.connectedSSID) > 0
       THEN LET r == ConnectToWiFi(s1, s1.connectedSSID, s1.connectedPassword, w, apOk1)
            IN [st |-> IF ~r.ret THEN StartAccessPoint(r.st, apOk2) ELSE r.st,
                tried |-> TRUE, ret |-> r.ret]
       ELSE [st |-> StartAccessPoint(s1, apOk1), tried |-> FALSE, ret |-> FALSE]

End(s) ==
    LET s1 == DisconnectWiFi(StopAccessPoint(s))
    IN [s1 EXCEPT !.dnsServer = FALSE]

----------------------------------------------------------------------------
(* The state.  The first group are the fields of WiFiManager, the second   *)
(* its environment, the third what an observer of the calls records.       *)

VARIABLES
    _deviceName, _apSSID,
    _isConnected, _isAPActive, _shouldReconnect,
    _lastReconnectAttempt, _reconnectAttempts,
    _connectedSSID, _connectedPassword,
    _dnsServer,           \* whether the DNSServer object is allocated
    dnsRunning,           \* whether the DNS service answers queries
    prefs,                \* the Preferences store: a set of <<key, value>>
    link,                 \* "up" when WiFi.status() is WL_CONNECTED
    staBegun,             \* the station is trying to join staSSID
    staSSID, staPassword,
    now,                  \* millis()
    phase,                \* "constructed", "running" (after begin), "ended"
    op,                   \* the operation that returned last
    notif,                \* the notifications it fired, in order
    calls,                \* the link-driver calls it made, in order
    connFires,            \* connected notifications of the current manual connection
    exhausted,            \* the attempts ran out and no manual connect came since
    attemptsSinceLoss,    \* reconnection attempts since the last detected loss
    pending,              \* the connectToWiFi call that has not returned yet
    linkNotif,            \* the last connected/disconnected notification, and
                          \* whether the last operation kept them alternating
    sensorManager,        \* the fields of the SensorManager object
    sensorPhase,          \* "constructed" or "running" (after begin)
    sensorOp,             \* the SensorManager operation that returned last
    produced,             \* every reading appended to the history, in order
    clearedWindow,        \* the window of the last clearHistory, until a new reading
    button,               \* the button variables of main.cpp and the LED state
    pin,                  \* digitalRead(BUTTON_PIN): TRUE is HIGH, not pressed
    press                 \* the last press of the button, as an observer times it

machineVars == <<_deviceName, _apSSID,
                 _isConnected, _isAPActive, _shouldReconnect, _lastReconnectAttempt,
                 _reconnectAttempts, _connectedSSID, _connectedPassword,
                 _dnsServer, dnsRunning>>
driverVars == <<link, staBegun, staSSID, staPassword>>
sensorVars == <<sensorManager, sensorPhase, sensorOp, produced, clearedWindow>>
buttonVars == <<button, pin, press>>
vars == <<machineVars, prefs, driverVars, now, phase, op, notif, calls,
          connFires, exhausted, attemptsSinceLoss, pending, linkNotif, sensorVars,
          buttonVars>>

\* What the observer of the notifications keeps: the last notification of a
\* link change (none after construction), and whether each notification of
\* the last operation differed from the one before it, a disconnected one
\* never coming first.
RECURSIVE TrackLinkNotifs(_, _)
TrackLinkNotifs(g, notifs) ==
    IF notifs = << >> THEN g
    ELSE LET n == Head(notifs)
         IN IF n \in {"connected", "disconnected"}
            THEN TrackLinkNotifs(
                     [last |-> n,
                      ok |-> g.ok /\ n # g.last
                                 /\ (n = "disconnected" => g.last = "connected")],
                     Tail(notifs))
            ELSE TrackLinkNotifs(g, Tail(notifs))

NoLinkNotif == [last |-> "none", ok |-> TRUE]


\* The current state as a record; the logs of an operation start empty.
Cur ==
    [deviceName |-> _deviceName, apSSID |-> _apSSID,
     isConnected |-> _isConnected, isAPActive |-> _isAPActive,
     shouldReconnect |-> _shouldReconnect,
     lastReconnectAttempt |-> _lastReconnectAttempt,
     reconnectAttempts |-> _reconnectAttempts,
     connectedSSID |-> _connectedSSID, connectedPassword |-> _connectedPassword,
     dnsServer |-> _dnsServer, dnsRunning |-> dnsRunning,
     prefs |-> prefs, link |-> link, staBegun |-> staBegun,
     staSSID |-> staSSID, staPassword |-> staPassword,
     now |-> now, notif |-> << >>, calls |-> << >>,
     linkLast |-> linkNotif.last]

Commit(s) ==
    /\ _deviceName' = s.deviceName
    /\ _apSSID' = s.apSSID
    /\ _isConnected' = s.isConnected
    /\ _isAPActive' = s.isAPActive
    /\ _shouldReconnect' = s.shouldReconnect
    /\ _lastReconnectAttempt' = s.lastReconnectAttempt
    /\ _reconnectAttempts' = s.reconnectAttempts
    /\ _connectedSSID' = s.connectedSSID
    /\ _connectedPassword' = s.connectedPassword
    /\ _dnsServer' = s.dnsServer
    /\ dnsRunning' = s.dnsRunning
    /\ prefs' = s.prefs
    /\ link' = s.link
    /\ staBegun' = s.staBegun
    /\ staSSID' = s.staSSID
    /\ staPassword' = s.staPassword
    /\ now' = s.now
    /\ notif' = s.notif
    /\ calls' = s.calls
    /\ linkNotif' = TrackLinkNotifs([last |-> s.linkLast, ok |-> TRUE], s.notif)

\* What is recorded of a call: its name, its arguments, whether a client
\* connection was tried, what it returned and, of a handleClient tick, the
\* clock it read.
OpRecord(name, ssid, password, tried, ret, t) ==
    [name |-> name, ssid |-> ssid, password |-> password,
     tried |-> tried, ret |-> ret, t |-> t]

PlainOp(name) == OpRecord(name, EmptyString, EmptyString, FALSE, FALSE, 0)

\* No connectToWiFi call is in progress.
NoConnect ==
    [active |-> FALSE, ssid |-> EmptyString, password |-> EmptyString, t |-> 0]

\* The state the constructor leaves, over the Preferences store p: the
\* member initializers of WiFiManager::WiFiManager(), a station that has not
\* begun and a clock that starts at zero.
Constructed(p) ==
    [deviceName |-> DEFAULT_DEVICE_NAME, apSSID |-> EmptyString,
     isConnected |-> FALSE, isAPActive |-> FALSE, shouldReconnect |-> FALSE,
     lastReconnectAttempt |-> 0, reconnectAttempts |-> 0,
     connectedSSID |-> EmptyString, connectedPassword |-> EmptyString,
     dnsServer |-> FALSE, dnsRunning |-> FALSE,
     prefs |-> p, link |-> "down", staBegun |-> FALSE,
     staSSID |-> EmptyString, staPassword |-> EmptyString,
     now |-> 0, notif |-> << >>, calls |-> << >>,
     linkLast |-> "none"]


\* SensorReading and SensorStats after memset(.., 0, ..).
ZeroReading ==
    [temperature |-> 0, humidity |-> 0, pressure |-> 0, lightLevel |-> 0,
     motionDetected |-> FALSE, batteryLevel |-> 0, timestamp |-> 0]

ZeroStats ==
    [minTemperature |-> 0, maxTemperature |-> 0, avgTemperature |-> 0,
     minHumidity |-> 0, maxHumidity |-> 0, avgHumidity |-> 0,
     minPressure |-> 0, maxPressure |-> 0, avgPressure |-> 0,
     minLightLevel |-> 0, maxLightLevel |-> 0, avgLightLevel |-> 0,
     motionEvents |-> 0, lastMotionTime |-> 0, batteryHealth |-> 0,
     dataPoints |-> 0]

\* The state the constructor of SensorManager leaves: its member
\* initializers, the two memsets and an empty history.  The bases of
\* temperature, humidity and pressure are never assigned again and are the
\* constants of config.h.
SensorConstructed ==
    [currentReading |-> ZeroReading, history |-> << >>,
     maxHistorySize |-> SENSOR_HISTORY_SIZE,
     stats |-> ZeroStats, statsValid |-> FALSE,
     temperatureEnabled |-> TRUE, humidityEnabled |-> TRUE,
     pressureEnabled |-> TRUE, lightEnabled |-> TRUE,
     motionEnabled |-> TRUE, batteryEnabled |-> TRUE,
     lastUpdate |-> 0, updateInterval |-> SENSOR_UPDATE_INTERVAL,
     lastStatsUpdate |-> 0, lightBase |-> LIGHT_BASE,
     motionActive |-> FALSE, motionStartTime |-> 0, lastMotionEvent |-> 0,
     motionEventCount |-> 0, batteryLevel |-> INITIAL_BATTERY_LEVEL,
     batteryCharging |-> FALSE,
     tempOffset |-> 0, humidityOffset |-> 0, pressureOffset |-> 0]

\* The motion sub-state of a SensorManager.
MotionState(m) ==
    [active |-> m.motionActive, startTime |-> m.motionStartTime,
     lastEvent |-> m.lastMotionEvent, count |-> m.motionEventCount]

\* What is recorded of a call of SensorManager: its name, its argument, the
\* history and the motion sub-state it found, how often it asked for a motion
\* trial, the clock it read and the statistics it returned.
SensorOpRecord(name, arg, m, trials, t, ret) ==
    [name |-> name, arg |-> arg, historyBefore |-> m.history,
     motionBefore |-> MotionState(m), trials |-> trials, t |-> t, ret |-> ret]

SensorConstructOp ==
    SensorOpRecord("construct", 0, SensorConstructed, 0, 0, ZeroStats)

\* The levels of the button pin, which is pulled up.
HIGH == TRUE
LOW == FALSE

\* The button variables of main.cpp after a boot: the globals and the
\* statics of handleButton.
ButtonBoot ==
    [lastButtonState |-> HIGH, buttonDebounceTime |-> 0,
     buttonPressed |-> FALSE, buttonPressTime |-> 0, ledState |-> FALSE]

\* No press so far.  `held` is the time the button has been low, `since` the
\* time since its release, both as far as handleButton calls have passed;
\* `outcome` is what handleButton did for the press.
NoPress == [phase |-> "idle", held |-> 0, since |-> 0, outcome |-> "none"]

ConstructOp == PlainOp("construct")

\* A factory-fresh device: nothing is stored.
Init ==
    LET s == Constructed({})
    IN /\ _deviceName = s.deviceName
       /\ _apSSID = s.apSSID
       /\ _isConnected = s.isConnected
       /\ _isAPActive = s.isAPActive
       /\ _shouldReconnect = s.shouldReconnect
       /\ _lastReconnectAttempt = s.lastReconnectAttempt
       /\ _reconnectAttempts = s.reconnectAttempts
       /\ _connectedSSID = s.connectedSSID
       /\ _connectedPassword = s.connectedPassword
       /\ _dnsServer = s.dnsServer
       /\ dnsRunning = s.dnsRunning
       /\ prefs = s.prefs
       /\ link = s.link
       /\ staBegun = s.staBegun
       /\ staSSID = s.staSSID
       /\ staPassword = s.staPassword
       /\ now = s.now
       /\ notif = s.notif
       /\ calls = s.calls
       /\ phase = "constructed"
       /\ op = ConstructOp
       /\ connFires = 0
       /\ exhausted = FALSE
       /\ attemptsSinceLoss = 0
       /\ pending = NoConnect
       /\ linkNotif = NoLinkNotif
       /\ sensorManager = SensorConstructed
       /\ sensorPhase = "constructed"
       /\ sensorOp = SensorConstructOp
       /\ produced = << >>
       /\ clearedWindow = << >>
       /\ button = ButtonBoot
       /\ pin = HIGH
       /\ press = NoPress

\* The clock may advance by d: the run stays within MaxElapsed, or it is on
\* its way through the wrap-around.
TimeLeft(d) == now >= NearWrap \/ now + d <= MaxElapsed

Min(a, b) == IF a < b THEN a ELSE b

----------------------------------------------------------------------------
(* The operations of the host on the machine.                              *)

\* setup() calls begin with the device name it has loaded, one of `names`.
BeginWith(names) ==
    /\ phase = "constructed"
    /\ \E name \in names, w \in ConnectOutcomes,
          apOk1 \in BOOLEAN, apOk2 \in BOOLEAN :
         LET r == Begin(Cur, name, w, apOk1, apOk2)
         IN /\ Commit(r.st)
            /\ op' = OpRecord("begin",
                              PrefsGetString(prefs, PREF_WIFI_SSID, EmptyString),
                              PrefsGetString(prefs, PREF_WIFI_PASSWORD, EmptyString),
                              r.tried, r.ret, 0)
            /\ connFires' = IF r.ret THEN Count(r.st.notif, "connected") ELSE 0
    /\ phase' = "running"
    /\ UNCHANGED <<exhausted, attemptsSinceLoss, pending, sensorVars,
                   buttonVars>>

\* The device name was never changed.
BeginCall == BeginWith({DEFAULT_DEVICE_NAME})

\* The device name is any of DeviceNames.
NamedBeginCall == BeginWith(DeviceNames)

\* A caller passes one of `inputs` to connectToWiFi.
ConnectWith(inputs) ==
    /\ phase = "running"
    /\ \E in \in inputs, w \in ConnectOutcomes, apOk \in BOOLEAN :
         /\ TimeLeft(OnGrid(w.waited) + OnGrid(DISCONNECT_DELAY_MS))
         /\ LET accepted == Len(in[1]) > 0 /\ Len(in[1]) <= MAX_SSID_LENGTH
                r == ConnectToWiFi(Cur, in[1], in[2], w, apOk)
            IN /\ Commit(r.st)
               /\ op' = OpRecord("connectToWiFi", in[1], in[2], accepted, r.ret, 0)
               /\ connFires' = IF ~accepted THEN connFires
                               ELSE IF r.ret THEN Count(r.st.notif, "connected")
                               ELSE 0
               /\ exhausted' = IF accepted THEN FALSE ELSE exhausted
    /\ UNCHANGED <<phase, attemptsSinceLoss, pending, sensorVars,
                   buttonVars>>

ConnectCall == ConnectWith(ConnectInputs)

\* The connect request carries a password of any length.
KeyedConnectCall == ConnectWith(PasswordInputs)

DisconnectCall ==
    /\ phase = "running"
    /\ Commit(DisconnectWiFi(Cur))
    /\ op' = PlainOp("disconnectWiFi")
    /\ connFires' = 0
    /\ UNCHANGED <<phase, exhausted, attemptsSinceLoss, pending, sensorVars,
                   buttonVars>>

ResetCall ==
    /\ phase = "running"
    /\ \E apOk \in BOOLEAN : Commit(ResetWiFiSettings(Cur, apOk))
    /\ op' = PlainOp("resetWiFiSettings")
    /\ connFires' = 0
    /\ UNCHANGED <<phase, exhausted, attemptsSinceLoss, pending, sensorVars,
                   buttonVars>>

\* One iteration of the host loop: d ms after the previous operation,
\* handleClient runs.
TickBy(d) ==
    /\ phase = "running"
    /\ d = 0 \/ TimeLeft(d)
    /\ \E apOk \in BOOLEAN :
         LET s0 == [Cur EXCEPT !.now = UAdd(now, d)]
             s == HandleClient(s0, apOk)
             lost == Count(s.notif, "disconnected") > 0
             tried == IF HasCall(s.calls, "begin") THEN 1 ELSE 0
         IN /\ Commit(s)
            /\ op' = OpRecord("handleClient", EmptyString, EmptyString,
                              tried = 1, FALSE, s0.now)
            /\ connFires' = IF connFires = 0 THEN 0
                            ELSE Min(2, connFires + Count(s.notif, "connected"))
            /\ exhausted' = (exhausted \/ (_shouldReconnect /\ ~s.shouldReconnect))
            /\ attemptsSinceLoss' =
                  Min(WIFI_MAX_RECONNECT_ATTEMPTS + 1,
                      (IF lost THEN 0 ELSE attemptsSinceLoss) + tried)
    /\ UNCHANGED <<phase, pending, sensorVars,
                   buttonVars>>

Tick == \E d \in TickSteps : TickBy(d)

EndCall ==
    /\ phase = "running"
    /\ Commit(End(Cur))
    /\ op' = PlainOp("end")
    /\ phase' = "ended"
    /\ connFires' = 0
    /\ UNCHANGED <<exhausted, attemptsSinceLoss, pending, sensorVars,
                   buttonVars>>

\* ESP.restart(), a watchdog reset or a power cycle: the constructor runs
\* again; only the Preferences store survives.
RestartFrom(p) ==
    /\ Commit(Constructed(p))
    /\ phase' = "constructed"
    /\ op' = ConstructOp
    /\ connFires' = 0
    /\ exhausted' = FALSE
    /\ attemptsSinceLoss' = 0
    /\ pending' = NoConnect
    /\ sensorManager' = SensorConstructed
    /\ sensorPhase' = "constructed"
    /\ sensorOp' = SensorConstructOp
    /\ produced' = << >>
    /\ clearedWindow' = << >>
    /\ button' = ButtonBoot

Restart == RestartFrom(prefs) /\ UNCHANGED <<pin, press>>

\* Direct calls of the two public access-point methods.
StartAccessPointCall ==
    /\ phase = "running"
    /\ \E apOk \in BOOLEAN : Commit(StartAccessPoint(Cur, apOk))
    /\ op' = PlainOp("startAccessPoint")
    /\ UNCHANGED <<phase, connFires, exhausted, attemptsSinceLoss, pending, sensorVars,
                   buttonVars>>

StopAccessPointCall ==
    /\ phase = "running"
    /\ Commit(StopAccessPoint(Cur))
    /\ op' = PlainOp("stopAccessPoint")
    /\ UNCHANGED <<phase, connFires, exhausted, attemptsSinceLoss, pending, sensorVars,
                   buttonVars>>

----------------------------------------------------------------------------
(* The events of the environment.                                          *)

\* The station, which is trying to join a network, gets its link.
LinkUp ==
    /\ phase = "running"
    /\ staBegun /\ link = "down"
    /\ link' = "up"
    /\ op' = PlainOp("environment")
    /\ notif' = << >> /\ calls' = << >>
    /\ UNCHANGED <<machineVars, prefs, staBegun, staSSID, staPassword, now, phase,
                   connFires, exhausted, attemptsSinceLoss, pending, linkNotif,
                   sensorVars,
                   buttonVars>>

\* The link is lost; the driver keeps trying to get it back.
LinkDown ==
    /\ phase = "running"
    /\ link = "up"
    /\ link' = "down"
    /\ op' = PlainOp("environment")
    /\ notif' = << >> /\ calls' = << >>
    /\ connFires' = 0
    /\ UNCHANGED <<machineVars, prefs, staBegun, staSSID, staPassword, now, phase,
                   exhausted, attemptsSinceLoss, pending, linkNotif,
                   sensorVars,
                   buttonVars>>

\* Nothing is pending: handleClient finds nothing to do, whatever the clock.
Quiescent ==
    /\ ~(_shouldReconnect /\ ~_isConnected)
    /\ _isConnected <=> (link = "up")

\* The device idles, tick after tick, until millis() is close to wrapping.
LongUptime ==
    /\ phase = "running"
    /\ Quiescent
    /\ now < NearWrap
    /\ now' = NearWrap
    /\ op' = PlainOp("environment")
    /\ notif' = << >> /\ calls' = << >>
    /\ UNCHANGED <<machineVars, prefs, driverVars, phase,
                   connFires, exhausted, attemptsSinceLoss, pending, linkNotif,
                   sensorVars,
                   buttonVars>>

Next ==
    \/ BeginCall
    \/ ConnectCall
    \/ DisconnectCall
    \/ ResetCall
    \/ Tick
    \/ EndCall
    \/ Restart
    \/ LinkUp
    \/ LinkDown

Spec == Init /\ [][Next]_vars

\* The same, with the host also calling startAccessPoint and stopAccessPoint.
ApiNext ==
    \/ Next
    \/ StartAccessPointCall
    \/ StopAccessPointCall

ApiSpec == Init /\ [][ApiNext]_vars

\* A device that has been up for weeks: millis() wraps while the machine
\* connects, loses its link and reconnects.
UptimeNext ==
    \/ BeginCall
    \/ ConnectCall
    \/ Tick
    \/ LinkUp
    \/ LinkDown
    \/ LongUptime

UptimeSpec == Init /\ [][UptimeNext]_vars

\* Boots of a device under each of its names, with resets of the settings.
BootNext ==
    \/ NamedBeginCall
    \/ ConnectCall
    \/ ResetCall
    \/ Tick
    \/ Restart

BootSpec == Init /\ [][BootNext]_vars

\* Connect requests with passwords of every length, across restarts.
KeyedNext ==
    \/ BeginCall
    \/ KeyedConnectCall
    \/ Tick
    \/ Restart
    \/ LinkDown

KeyedSpec == Init /\ [][KeyedNext]_vars

\* The connect request of the presentation layer.  _handleAPIConnect is a
\* handler of the AsyncWebServer: it runs in the task of the TCP library,
\* not in loop(), so the host loop goes on calling handleClient while the
\* handler is inside connectToWiFi.  The handler enters connectToWiFi ...
AsyncConnectStart ==
    /\ phase = "running"
    /\ ~pending.active
    /\ \E in \in {c \in ConnectInputs : IsValidSSID(c[1])} :
         /\ TimeLeft(OnGrid(WIFI_CONNECT_TIMEOUT_MS) + OnGrid(DISCONNECT_DELAY_MS))
         /\ Commit(ConnectToWiFiStart(Cur, in[1], in[2]))
         /\ pending' = [active |-> TRUE, ssid |-> in[1], password |-> in[2],
                        t |-> now]
         /\ op' = OpRecord("connectToWiFi entered", in[1], in[2], TRUE, FALSE, 0)
    /\ connFires' = 0
    /\ exhausted' = FALSE
    /\ UNCHANGED <<phase, attemptsSinceLoss, sensorVars,
                   buttonVars>>

\* ... and leaves its wait loop when the link is up or the timeout has
\* elapsed, and returns.
AsyncConnectFinish ==
    /\ phase = "running"
    /\ pending.active
    /\ WiFiConnected(Cur) \/ USub(now, pending.t) >= WIFI_CONNECT_TIMEOUT_MS
    /\ \E apOk \in BOOLEAN :
         LET r == ConnectToWiFiFinish(Cur, apOk)
         IN /\ Commit(r.st)
            /\ op' = OpRecord("connectToWiFi", pending.ssid, pending.password,
                              TRUE, r.ret, 0)
            /\ connFires' = IF r.ret THEN Count(r.st.notif, "connected") ELSE 0
    /\ pending' = NoConnect
    /\ UNCHANGED <<phase, exhausted, attemptsSinceLoss, sensorVars,
                   buttonVars>>

AsyncNext ==
    \/ BeginCall
    \/ AsyncConnectStart
    \/ AsyncConnectFinish
    \/ Tick
    \/ LinkUp
    \/ LinkDown

AsyncSpec == Init /\ [][AsyncNext]_vars

\* Reconnection is armed and the machine has seen the link go.
Recovering == _shouldReconnect /\ ~_isConnected

\* A lost link that never comes back: the station never gets its link again
\* by itself, nobody issues a command while the machine is recovering, and
\* the host loop keeps calling handleClient while time advances.
LiveConnect == ~Recovering /\ ConnectCall

LiveLinkDown == _isConnected /\ LinkDown

LiveNext ==
    \/ BeginCall
    \/ LiveConnect
    \/ LiveLinkDown
    \/ Tick

LiveSpec ==
    Init /\ [][LiveNext]_vars /\ WF_vars(Tick) /\ WF_vars(TickBy(Quantum))

----------------------------------------------------------------------------
(* The properties of the connectivity state machine.                       *)

\* The driver refused to start the access point during the last operation.
SoftAPRefused == \E i \in DOMAIN calls : calls[i].f = "softAP" /\ ~calls[i].ok

\* connectToWiFi was entered with an SSID that _isValidSSID rejects.
RejectedConnect(o) ==
    o.name = "connectToWiFi" /\ (Len(o.ssid) = 0 \/ Len(o.ssid) > MAX_SSID_LENGTH)

\* C1: whenever a public operation has returned, the machine is not both
\* ConnectedClient (_isConnected) and access-point-active (_isAPActive).
\* The code violates it: a connectToWiFi that fails while the machine is
\* connected starts the access point and leaves _isConnected set, and the
\* promotion by _updateConnectionStatus does not stop the access point.
C1_NeverConnectedAndAPActive == ~(_isConnected /\ _isAPActive)

\* C2: in every reachable state the DNS service of the captive portal is
\* running if and only if the access point is active, for any sequence of
\* begin, connectToWiFi, resetWiFiSettings, startAccessPoint,
\* stopAccessPoint, end and handleClient.
C2_DNSRunsIffAPActive == dnsRunning <=> _isAPActive

\* C2, witness: stopAccessPoint has just deactivated an active access point
\* whose DNS server object is still allocated.
C2_Witness ==
    /\ op.name = "stopAccessPoint"
    /\ HasCall(calls, "softAPdisconnect")
    /\ _dnsServer /\ ~_isAPActive /\ ~dnsRunning

\* C3: connectToWiFi with an empty SSID or an SSID longer than 32 bytes
\* returns failure and changes nothing: no field of the machine, no stored
\* credential, no call to the link driver and no notification.
C3_InvalidSSIDHasNoEffect ==
    [][RejectedConnect(op') =>
          /\ ~op'.ret
          /\ UNCHANGED <<machineVars, prefs, driverVars, now>>
          /\ notif' = << >>
          /\ calls' = << >>]_vars

\* C3, witness: a 33-byte SSID was refused while the machine was connected
\* with reconnection armed and credentials stored.
C3_Witness ==
    /\ op.name = "connectToWiFi" /\ Len(op.ssid) > MAX_SSID_LENGTH /\ ~op.ret
    /\ _isConnected /\ _shouldReconnect /\ prefs # {}

\* C4: when connectToWiFi(ssid, password) succeeds, on return the store
\* holds exactly (ssid, password), the access point and the DNS service are
\* inactive, the machine is connected and the connected notification has
\* fired once; no later handleClient tick fires it again while the link
\* stays up (connFires never reaches 2).
C4_SuccessfulConnect ==
    /\ (op.name = "connectToWiFi" /\ op.ret) =>
          /\ prefs = {<<PREF_WIFI_SSID, op.ssid>>, <<PREF_WIFI_PASSWORD, op.password>>}
          /\ ~_isAPActive /\ ~dnsRunning
          /\ _isConnected
          /\ Count(notif, "connected") = 1
    /\ connFires < 2

\* C4, witness: a handleClient tick has run after a successful connection
\* whose link is still up.
C4_Witness ==
    /\ op.name = "handleClient"
    /\ connFires = 1 /\ _isConnected /\ link = "up"

\* C5: when connectToWiFi passes validation and fails, on return the access
\* point is active, the machine is not connected and reconnection is not
\* armed, from every prior state.  The code violates it even when the driver
\* starts the access point: a failing call issued while connected leaves
\* _isConnected and _shouldReconnect set.
C5_FailedConnectIsAccessPointOnly ==
    (op.name = "connectToWiFi" /\ op.tried /\ ~op.ret /\ ~SoftAPRefused) =>
        (_isAPActive /\ ~_isConnected /\ ~_shouldReconnect)

\* C6: a failed connectToWiFi, called directly or by begin, never writes the
\* credential store: the stored keys are the same after the call as before.
C6_FailedConnectKeepsStore ==
    [][(op'.name \in {"connectToWiFi", "begin"} /\ ~op'.ret) => prefs' = prefs]_vars

\* C6, witness: a validated connectToWiFi failed while the store held the
\* credentials of another network.
C6_Witness ==
    /\ op.name = "connectToWiFi" /\ op.tried /\ ~op.ret
    /\ PrefsHasKey(prefs, PREF_WIFI_SSID)
    /\ PrefsGetString(prefs, PREF_WIFI_SSID, EmptyString) # op.ssid

\* C7: in every reachable state 0 <= _reconnectAttempts <=
\* WIFI_MAX_RECONNECT_ATTEMPTS.
C7_AttemptsWithinBounds ==
    _reconnectAttempts >= 0 /\ _reconnectAttempts <= WIFI_MAX_RECONNECT_ATTEMPTS

\* C7, witness: all the attempts have been used.
C7_Witness ==
    _reconnectAttempts = WIFI_MAX_RECONNECT_ATTEMPTS /\ op.name = "handleClient"

\* C8, as stated: the handleClient tick whose attempt brings
\* _reconnectAttempts to the maximum also disarms reconnection and starts
\* the access point.
C8_FallbackInTickOfLastAttempt ==
    [][(op'.name = "handleClient" /\ op'.tried
          /\ _reconnectAttempts' = WIFI_MAX_RECONNECT_ATTEMPTS) =>
            (~_shouldReconnect' /\ _isAPActive')]_vars

\* C8, amended: the tick whose attempt brings _reconnectAttempts to the
\* maximum leaves reconnection armed and the access point as it was.  The
\* fallback is taken by a later tick, which finds the counter at the maximum
\* and a reconnect interval elapsed since the last attempt: that tick makes
\* no attempt, disarms reconnection, resets the counter and starts the access
\* point (unless the driver refuses).
C8_FallbackOneIntervalAfterLastAttempt ==
    [][op'.name = "handleClient" =>
          /\ (op'.tried /\ _reconnectAttempts' = WIFI_MAX_RECONNECT_ATTEMPTS) =>
                (_shouldReconnect' /\ _isAPActive' = _isAPActive)
          /\ (_shouldReconnect /\ ~_shouldReconnect') =>
                /\ ~op'.tried
                /\ _reconnectAttempts = WIFI_MAX_RECONNECT_ATTEMPTS
                /\ USub(op'.t, _lastReconnectAttempt) >= WIFI_RECONNECT_INTERVAL
                /\ _reconnectAttempts' = 0
                /\ _isAPActive' \/ SoftAPRefused']_vars

\* C8, witness: a tick has just made the last attempt; reconnection is still
\* armed and the access point is not active.
C8_Witness ==
    /\ op.name = "handleClient" /\ op.tried
    /\ _reconnectAttempts = WIFI_MAX_RECONNECT_ATTEMPTS
    /\ _shouldReconnect /\ ~_isAPActive

\* The longest a recovery lasts: one interval before each attempt and one
\* more before the fallback.
RecoveryTime == (WIFI_MAX_RECONNECT_ATTEMPTS + 1) * WIFI_RECONNECT_INTERVAL

C10_NoAttemptAfterExhaustion ==
    exhausted => (~_shouldReconnect /\ ~(op.name = "handleClient" /\ op.tried))

\* C10, witness: after the attempts ran out the link came back and a tick has
\* just detected that it is lost again.
C10_Witness ==
    /\ exhausted /\ op.name = "handleClient"
    /\ Count(notif, "disconnected") = 1 /\ ~_isConnected

\* C11, as stated: the first handleClient tick after a loss of the link
\* while connected marks the machine disconnected, fires the disconnected
\* notification once and arms reconnection; a tick of a machine that is not
\* connected does not fire it.
C11_LossDetectedAndArmed ==
    [][op'.name = "handleClient" =>
          /\ (_isConnected /\ link = "down") =>
                (~_isConnected' /\ Count(notif', "disconnected") = 1
                   /\ _shouldReconnect')
          /\ ~_isConnected => Count(notif', "disconnected") = 0]_vars

\* C11, amended: the first tick after the loss marks the machine
\* disconnected and fires the disconnected notification once, and later
\* ticks do not fire it again; but the tick does not arm reconnection, it
\* leaves the arming as it was.  If reconnection was armed (by the last
\* successful connectToWiFi) the reconnect interval starts at that tick; if
\* it was not (the connection was a promotion by handleClient) it stays
\* disarmed.
C11_LossDetectedArmingKept ==
    [][op'.name = "handleClient" =>
          /\ (_isConnected /\ link = "down") =>
                /\ ~_isConnected'
                /\ Count(notif', "disconnected") = 1
                /\ _shouldReconnect' = _shouldReconnect
                /\ _shouldReconnect => _lastReconnectAttempt' = op'.t
                /\ ~op'.tried
          /\ ~_isConnected => Count(notif', "disconnected") = 0]_vars

\* C11, witness: a tick has just detected the loss of a link whose
\* reconnection was armed.
C11_Witness ==
    /\ op.name = "handleClient" /\ Count(notif, "disconnected") = 1
    /\ ~_isConnected /\ _shouldReconnect /\ ~exhausted
    /\ _lastReconnectAttempt = op.t /\ link = "down"

\* The number of WiFi.begin calls among the driver calls of an operation.
BeginCalls(seq) == Cardinality({i \in DOMAIN seq : seq[i].f = "begin"})

\* C12: a handleClient tick makes at most one reconnection attempt, and only
\* when reconnection is armed and the machine is not connected.  An attempt
\* is made only when at least WIFI_RECONNECT_INTERVAL has elapsed, in
\* unsigned arithmetic, since _lastReconnectAttempt, which every attempt and
\* every detection of a loss with reconnection armed set to the clock of
\* their tick: so the first attempt after a loss and any two consecutive
\* attempts are at least one interval apart, also across the wrap-around of
\* millis().
C12_AttemptsOneIntervalApart ==
    [][op'.name = "handleClient" =>
          /\ BeginCalls(calls') <= 1
          /\ op'.tried = (BeginCalls(calls') = 1)
          /\ op'.tried =>
                /\ _shouldReconnect /\ ~_isConnected
                /\ USub(op'.t, _lastReconnectAttempt) >= WIFI_RECONNECT_INTERVAL
                /\ _lastReconnectAttempt' = op'.t
          /\ (_isConnected /\ link = "down" /\ _shouldReconnect) =>
                (~op'.tried /\ _lastReconnectAttempt' = op'.t)
          /\ (~op'.tried /\ ~(_isConnected /\ link = "down")) =>
                _lastReconnectAttempt' = _lastReconnectAttempt]_vars

\* C12, witness: an attempt was made less than one interval after millis()
\* wrapped, one interval after an attempt or a loss before the wrap.
C12_Witness ==
    /\ op.name = "handleClient" /\ op.tried
    /\ op.t < WIFI_RECONNECT_INTERVAL
    /\ _lastReconnectAttempt = op.t

\* C13: every automatic reconnection attempt passes to the link driver the
\* SSID and the password that the credential store holds.  The code violates
\* it: _attemptReconnection uses the in-memory credentials, which a failed
\* connectToWiFi has overwritten with the ones it tried and not restored.
C13_ReconnectUsesStoredCredentials ==
    (op.name = "handleClient" /\ op.tried) =>
        \A i \in DOMAIN calls :
            calls[i].f = "begin" =>
                prefs = {<<PREF_WIFI_SSID, calls[i].ssid>>,
                         <<PREF_WIFI_PASSWORD, calls[i].password>>}

\* C14: when the link has become connected outside connectToWiFi while the
\* machine is not connected, the next handleClient tick promotes the machine
\* to connected, resets _reconnectAttempts to 0 and fires the connected
\* notification once.  The code violates it: handleClient calls
\* _attemptReconnection before _updateConnectionStatus, so a tick that finds
\* reconnection armed, the interval elapsed and attempts left drops the link
\* that has just come up (WiFi.disconnect) and promotes nothing.
C14_LinkUpIsPromoted ==
    [][(op'.name = "handleClient" /\ ~_isConnected /\ link = "up") =>
          /\ _isConnected'
          /\ _reconnectAttempts' = 0
          /\ Count(notif', "connected") = 1]_vars

\* C15: disconnectWiFi called while connected disarms reconnection, tears
\* the link down, leaves the connected state and fires the disconnected
\* notification once; called while not connected (a second call included) it
\* changes nothing, touches no driver and fires nothing.
C15_DisconnectIsIdempotent ==
    [][op'.name = "disconnectWiFi" =>
          IF _isConnected
          THEN /\ ~_shouldReconnect' /\ ~_isConnected'
               /\ link' = "down"
               /\ notif' = <<"disconnected">>
               /\ UNCHANGED <<_isAPActive, dnsRunning, prefs,
                              _connectedSSID, _connectedPassword>>
          ELSE /\ UNCHANGED <<machineVars, prefs, driverVars, now>>
               /\ notif' = << >>
               /\ calls' = << >>]_vars

\* C15, witness: disconnectWiFi has just ended a connection.
C15_Witness ==
    /\ op.name = "disconnectWiFi" /\ notif = <<"disconnected">>
    /\ HasCall(calls, "disconnect")
    /\ ~_isConnected /\ ~_shouldReconnect /\ link = "down"

\* C16: from every reachable state, after resetWiFiSettings returns the
\* machine is not connected, reconnection is not armed, the access point is
\* active, the in-memory credentials are empty and the store holds neither
\* key.  The code violates it even when the driver starts the access point:
\* disconnectWiFi does nothing unless _isConnected, so a reset issued while
\* the machine is reconnecting after a link loss leaves _shouldReconnect set.
C16_ResetIsAccessPointOnly ==
    (op.name = "resetWiFiSettings" /\ ~SoftAPRefused) =>
        /\ ~_isConnected /\ ~_shouldReconnect /\ _isAPActive
        /\ _connectedSSID = EmptyString /\ _connectedPassword = EmptyString
        /\ ~PrefsHasKey(prefs, PREF_WIFI_SSID)
        /\ ~PrefsHasKey(prefs, PREF_WIFI_PASSWORD)

\* C17: when resetWiFiSettings is called while the machine is connected,
\* the disconnected notification and then the access-point-started
\* notification fire during the call.  The code violates it even when the
\* driver never refuses: the machine can be connected with the access point
\* active (C1), and startAccessPoint then returns early without notifying.
C17_ResetNotifiesDisconnectedThenAPStarted ==
    [][(op'.name = "resetWiFiSettings" /\ _isConnected /\ ~SoftAPRefused') =>
          notif' = <<"disconnected", "apStarted">>]_vars

\* begin() has returned on a device without stored credentials.
ColdBootDone == op.name = "begin" /\ op.ssid = EmptyString

SoftAPCalls == {i \in DOMAIN calls : calls[i].f = "softAP"}

\* begin() has returned after its connection to the stored network failed.
FailedBootDone == op.name = "begin" /\ op.tried /\ ~op.ret

C21_AccessPointExcludesReconnecting ==
    /\ ~(_isAPActive /\ _shouldReconnect /\ ~_isConnected)
    /\ ~(op.name = "handleClient" /\ op.tried /\ _isAPActive)

\* The NetworkCredentials constraints.
ValidCredentials(ssid, password) == IsValidSSID(ssid) /\ IsValidPassword(password)

\* C22: the credentials held by the machine and the ones in the store
\* always have an SSID of 1 to 32 bytes and a password of 0 or 8 to 63
\* bytes.  The code violates it: connectToWiFi checks the SSID only, so a
\* password of 1 to 7 or of more than 63 bytes becomes the machine's
\* password before the connection is tried, and is saved if the link comes
\* up.
C22_CredentialsAreValid ==
    /\ _connectedSSID # EmptyString =>
          ValidCredentials(_connectedSSID, _connectedPassword)
    /\ PrefsHasKey(prefs, PREF_WIFI_SSID) =>
          ValidCredentials(PrefsGetString(prefs, PREF_WIFI_SSID, EmptyString),
                           PrefsGetString(prefs, PREF_WIFI_PASSWORD, EmptyString))

\* C23: between the start and the return of a connectToWiFi call no
\* handleClient tick changes the machine: a tick that ran then would leave
\* _isConnected, the credentials and _reconnectAttempts alone and fire
\* nothing.  The code violates it: the connect request handler runs
\* connectToWiFi in the task of the asynchronous web server while loop()
\* keeps calling handleClient, and a tick that finds the link up during the
\* wait promotes the machine and fires the connected notification, which
\* connectToWiFi fires again when it leaves its wait loop.
C23_NoTickInsideConnect ==
    [][(pending.active /\ op'.name = "handleClient") =>
          /\ UNCHANGED <<_isConnected, _shouldReconnect, _reconnectAttempts,
                         _connectedSSID, _connectedPassword>>
          /\ notif' = << >>
          /\ calls' = << >>]_vars

----------------------------------------------------------------------------
(* The telemetry engine (src/src/sensor_manager.cpp).  As for WiFiManager, *)
(* every function of SensorManager is an operator from a state record to a *)
(* state record.  The record has the fields of the object, the clock (now) *)
(* and two logs of the current operation: how often it asked for a motion  *)
(* trial (trials) and the readings it appended to the history (appended).  *)
(*                                                                         *)
(* The random numbers of the simulation are inputs: a draw gives, for one  *)
(* sample, the trend of each continuous channel, the light base of the     *)
(* time of day and the sign of the noise; the motion trial is a boolean.   *)

Max(a, b) == IF a > b THEN a ELSE b

\* constrain(x, lo, hi)
Constrain(x, lo, hi) == IF x < lo THEN lo ELSE IF x > hi THEN hi ELSE x

\* An int compared with a size_t is converted to unsigned.
AsSizeT(n) == IF n < 0 THEN n + ULONG_MOD ELSE n

\* The longest time, in ms, the clock advances between the read at the start
\* of update and the reads inside _updateSensors.
MaxLag == 1

\* The draws of the random generator for one sample, and the time the clock
\* advances between the read at the start of update and the reads inside
\* _updateSensors.
Calm ==
    [tempWalk |-> 0, humidityWalk |-> 0, pressureWalk |-> 0,
     lightBase |-> LIGHT_BASE, lightWalk |-> 0, noise |-> 0, lag |-> 0]
Gust ==
    [tempWalk |-> 300, humidityWalk |-> -2500, pressureWalk |-> 150,
     lightBase |-> 9500, lightWalk |-> 800, noise |-> 1, lag |-> 0]
Late == [Calm EXCEPT !.lag = MaxLag]
Lull == [Calm EXCEPT !.noise = -1]
Draws == {Calm, Gust}

\* base + trend, kept within the variation range of the channel.
GenerateSensorValue(base, variation, walk) ==
    Constrain(base + walk, base - variation, base + variation)

\* A noise term of at most noiseLevel on top of the value.
ApplyNoise(value, noiseLevel, e) == value + e * noiseLevel

\* The Bernoulli trial of the motion detector.
ShouldTriggerMotion(s, trial) ==
    [st |-> [s EXCEPT !.trials = @ + 1], ret |-> trial]

\* A level below the threshold starts the recharge; while charging the
\* level rises by a fixed rate per sample until it is restored, otherwise it
\* falls by a fixed rate per sample; the level is clamped.
BatteryNeedsCharge(s) ==
    s.batteryCharging \/ s.batteryLevel < BATTERY_RECHARGE_THRESHOLD

BatteryAfterSample(s) ==
    IF BatteryNeedsCharge(s)
    THEN Constrain(s.batteryLevel + BATTERY_RECHARGE_RATE, PERCENT_MIN, PERCENT_MAX)
    ELSE Constrain(s.batteryLevel - BATTERY_DRAIN_RATE, PERCENT_MIN, PERCENT_MAX)

SimulateBatteryDrain(s) ==
    [s EXCEPT !.batteryLevel = BatteryAfterSample(s),
              !.batteryCharging =
                  BatteryNeedsCharge(s) /\ BatteryAfterSample(s) < PERCENT_MAX]

UpdateTemperature(s, d) ==
    [s EXCEPT !.currentReading.temperature =
        ApplyNoise(GenerateSensorValue(TEMP_BASE, TEMP_VARIATION, d.tempWalk)
                     + s.tempOffset,
                   TEMP_NOISE, d.noise)]

UpdateHumidity(s, d) ==
    [s EXCEPT !.currentReading.humidity =
        ApplyNoise(Constrain(GenerateSensorValue(HUMIDITY_BASE, HUMIDITY_VARIATION,
                                                 d.humidityWalk)
                               + s.humidityOffset,
                             PERCENT_MIN, PERCENT_MAX),
                   HUMIDITY_NOISE, d.noise)]

UpdatePressure(s, d) ==
    [s EXCEPT !.currentReading.pressure =
        ApplyNoise(GenerateSensorValue(PRESSURE_BASE, PRESSURE_VARIATION,
                                       d.pressureWalk)
                     + s.pressureOffset,
                   PRESSURE_NOISE, d.noise)]

\* The light base follows the time of day; the draw gives its value.
UpdateLightLevel(s, d) ==
    [s EXCEPT !.lightBase = d.lightBase,
              !.currentReading.lightLevel =
                 ApplyNoise(Constrain(GenerateSensorValue(d.lightBase,
                                                          LIGHT_VARIATION,
                                                          d.lightWalk),
                                      PERCENT_MIN, PERCENT_MAX),
                            LIGHT_NOISE, d.noise)]

UpdateMotionDetection_AlwaysTries(s, trial) ==
    LET r == ShouldTriggerMotion(s, trial)
        s1 == IF r.ret
              THEN [r.st EXCEPT !.motionActive = TRUE,
                                !.motionStartTime = Millis(s),
                                !.lastMotionEvent = Millis(s),
                                !.motionEventCount = @ + 1]
              ELSE r.st
    IN [s1 EXCEPT !.currentReading.motionDetected = s1.motionActive]

\* The trial is the second operand of &&: it is evaluated only when no
\* motion is active.
UpdateMotionDetection(s, trial) ==
    LET r == IF ~s.motionActive THEN ShouldTriggerMotion(s, trial)
                                ELSE [st |-> s, ret |-> FALSE]
        s1 == IF ~s.motionActive /\ r.ret
              THEN [r.st EXCEPT !.motionActive = TRUE,
                                !.motionStartTime = Millis(s),
                                !.lastMotionEvent = Millis(s),
                                !.motionEventCount = @ + 1]
              ELSE r.st
    IN [s1 EXCEPT !.currentReading.motionDetected = s1.motionActive]

UpdateBatteryLevel(s) ==
    LET s1 == SimulateBatteryDrain(s)
    IN [s1 EXCEPT !.currentReading.batteryLevel = s1.batteryLevel]

\* The steps of _updateSensors: the time stamp, then each enabled sensor.
StampReading(s) == [s EXCEPT !.currentReading.timestamp = Millis(s)]

TemperatureIfEnabled(s, d) ==
    IF s.temperatureEnabled THEN UpdateTemperature(s, d) ELSE s

HumidityIfEnabled(s, d) ==
    IF s.humidityEnabled THEN UpdateHumidity(s, d) ELSE s

PressureIfEnabled(s, d) ==
    IF s.pressureEnabled THEN UpdatePressure(s, d) ELSE s

LightIfEnabled(s, d) ==
    IF s.lightEnabled THEN UpdateLightLevel(s, d) ELSE s

MotionIfEnabled(s, trial) ==
    IF s.motionEnabled THEN UpdateMotionDetection(s, trial) ELSE s

BatteryIfEnabled(s) ==
    IF s.batteryEnabled THEN UpdateBatteryLevel(s) ELSE s

UpdateSensors(s, d, trial) ==
    BatteryIfEnabled(MotionIfEnabled(LightIfEnabled(PressureIfEnabled(
        HumidityIfEnabled(TemperatureIfEnabled(StampReading(s), d), d), d), d),
        trial))

\* while (_history.size() > _maxHistorySize) _history.erase(_history.begin())
RECURSIVE EraseOldest(_, _)
EraseOldest(history, maxHistorySize) ==
    IF Len(history) > AsSizeT(maxHistorySize)
    THEN EraseOldest(Tail(history), maxHistorySize)
    ELSE history

AddToHistory_NoEviction(s, reading) ==
    [s EXCEPT !.history = Append(s.history, reading),
              !.appended = Append(@, reading),
              !.statsValid = FALSE]

AddToHistory(s, reading) ==
    [s EXCEPT !.history = EraseOldest(Append(s.history, reading), s.maxHistorySize),
              !.appended = Append(@, reading),
              !.statsValid = FALSE]

\* The scan of _calculateStatistics over one channel: the minimum and the
\* maximum start at the first entry, the sum at zero.
RECURSIVE ScanMin(_, _, _)
ScanMin(history, channel, acc) ==
    IF history = << >> THEN acc
    ELSE ScanMin(Tail(history), channel, Min(acc, Head(history)[channel]))

RECURSIVE ScanMax(_, _, _)
ScanMax(history, channel, acc) ==
    IF history = << >> THEN acc
    ELSE ScanMax(Tail(history), channel, Max(acc, Head(history)[channel]))

RECURSIVE ScanSum(_, _, _)
ScanSum(history, channel, acc) ==
    IF history = << >> THEN acc
    ELSE ScanSum(Tail(history), channel, acc + Head(history)[channel])

\* sum / count, to the resolution of the model (a hundredth of the unit).
Average(sum, count) == sum \div count

\* The end of _calculateStatistics: the battery health, bounded below, the
\* number of data points, and the statistics are valid again.
CalculateStatisticsTail(s) ==
    [s EXCEPT !.stats.batteryHealth = Max(BATTERY_HEALTH_FLOOR, s.batteryLevel),
              !.stats.dataPoints = Len(s.history),
              !.statsValid = TRUE]

CalculateStatistics(s) ==
    IF s.history = << >>
    THEN [s EXCEPT !.statsValid = FALSE]
    ELSE LET h == s.history
             count == Len(h)
             s1 == [s EXCEPT
                 !.stats.minTemperature = ScanMin(h, "temperature", h[1].temperature),
                 !.stats.maxTemperature = ScanMax(h, "temperature", h[1].temperature),
                 !.stats.minHumidity = ScanMin(h, "humidity", h[1].humidity),
                 !.stats.maxHumidity = ScanMax(h, "humidity", h[1].humidity),
                 !.stats.minPressure = ScanMin(h, "pressure", h[1].pressure),
                 !.stats.maxPressure = ScanMax(h, "pressure", h[1].pressure),
                 !.stats.minLightLevel = ScanMin(h, "lightLevel", h[1].lightLevel),
                 !.stats.maxLightLevel = ScanMax(h, "lightLevel", h[1].lightLevel),
                 !.stats.avgTemperature = Average(ScanSum(h, "temperature", 0), count),
                 !.stats.avgHumidity = Average(ScanSum(h, "humidity", 0), count),
                 !.stats.avgPressure = Average(ScanSum(h, "pressure", 0), count),
                 !.stats.avgLightLevel = Average(ScanSum(h, "lightLevel", 0), count),
                 !.stats.motionEvents = s.motionEventCount,
                 !.stats.lastMotionTime = s.lastMotionEvent]
         IN CalculateStatisticsTail(s1)

UpdateStatistics(s) == CalculateStatistics(s)

----------------------------------------------------------------------------
(* SensorManager, public methods.                                          *)

SensorBegin(s) ==
    [s EXCEPT
        !.currentReading =
            [temperature |-> TEMP_BASE, humidity |-> HUMIDITY_BASE,
             pressure |-> PRESSURE_BASE, lightLevel |-> s.lightBase,
             motionDetected |-> FALSE, batteryLevel |-> s.batteryLevel,
             timestamp |-> Millis(s)],
        !.stats =
            [minTemperature |-> TEMP_BASE, maxTemperature |-> TEMP_BASE,
             avgTemperature |-> TEMP_BASE,
             minHumidity |-> HUMIDITY_BASE, maxHumidity |-> HUMIDITY_BASE,
             avgHumidity |-> HUMIDITY_BASE,
             minPressure |-> PRESSURE_BASE, maxPressure |-> PRESSURE_BASE,
             avgPressure |-> PRESSURE_BASE,
             minLightLevel |-> s.lightBase, maxLightLevel |-> s.lightBase,
             avgLightLevel |-> s.lightBase,
             motionEvents |-> 0, lastMotionTime |-> 0,
             batteryHealth |-> PERCENT_MAX, dataPoints |-> 0]]

SensorEnd(s) == [s EXCEPT !.history = << >>, !.statsValid = FALSE]

\* The steps of update.  The clock is read into currentTime at the start;
\* _updateSensors reads the clock again, and the clock may have advanced.
ReadClock(s) == [s EXCEPT !.currentTime = Millis(s)]

Elapse(s, ms) == [s EXCEPT !.now = UAdd(s.now, ms)]

StatisticsIfDue(s) ==
    IF USub(s.currentTime, s.lastStatsUpdate) >= STATS_UPDATE_INTERVAL
    THEN [UpdateStatistics(s) EXCEPT !.lastStatsUpdate = s.currentTime]
    ELSE s

RecordReading(s) == AddToHistory(s, s.currentReading)

SampleIfDue(s, d, trial) ==
    IF USub(s.currentTime, s.lastUpdate) >= s.updateInterval
    THEN StatisticsIfDue(RecordReading(
             [UpdateSensors(Elapse(s, d.lag), d, trial)
                 EXCEPT !.lastUpdate = s.currentTime]))
    ELSE s

MotionTimeout(s) ==
    IF s.motionActive
       /\ USub(s.currentTime, s.motionStartTime) >= MOTION_DURATION_MS
    THEN [s EXCEPT !.motionActive = FALSE,
                   !.currentReading.motionDetected = FALSE]
    ELSE s

Update(s, d, trial) == MotionTimeout(SampleIfDue(ReadClock(s), d, trial))

\* String::toLowerCase, on the letters of the sensor names.
ToLowerCase(name) ==
    [i \in DOMAIN name |->
        CASE name[i] = "B" -> "b"
          [] name[i] = "H" -> "h"
          [] name[i] = "L" -> "l"
          [] name[i] = "M" -> "m"
          [] name[i] = "P" -> "p"
          [] name[i] = "T" -> "t"
          [] OTHER -> name[i]]

TemperatureName == <<"t", "e", "m", "p", "e", "r", "a", "t", "u", "r", "e">>
HumidityName == <<"h", "u", "m", "i", "d", "i", "t", "y">>
PressureName == <<"p", "r", "e", "s", "s", "u", "r", "e">>
LightName == <<"l", "i", "g", "h", "t">>
MotionName == <<"m", "o", "t", "i", "o", "n">>
BatteryName == <<"b", "a", "t", "t", "e", "r", "y">>

EnableSensor(s, sensorName, enabled) ==
    LET sensor == ToLowerCase(sensorName)
    IN CASE sensor = TemperatureName -> [s EXCEPT !.temperatureEnabled = enabled]
         [] sensor = HumidityName -> [s EXCEPT !.humidityEnabled = enabled]
         [] sensor = PressureName -> [s EXCEPT !.pressureEnabled = enabled]
         [] sensor = LightName -> [s EXCEPT !.lightEnabled = enabled]
         [] sensor = MotionName -> [s EXCEPT !.motionEnabled = enabled]
         [] sensor = BatteryName -> [s EXCEPT !.batteryEnabled = enabled]
         [] OTHER -> s

SetUpdateInterval(s, interval) ==
    [s EXCEPT !.updateInterval = Max(interval, MIN_UPDATE_INTERVAL)]

GetStatistics(s) ==
    LET s1 == IF ~s.statsValid THEN CalculateStatistics(s) ELSE s
    IN [st |-> s1, ret |-> s1.stats]

ClearHistory(s) == [s EXCEPT !.history = << >>, !.statsValid = FALSE]

ResetStatistics(s) == [s EXCEPT !.stats = ZeroStats, !.statsValid = FALSE]

SetHistorySize_TrimsNewest(s, size) ==
    [s EXCEPT !.maxHistorySize = Max(size, MIN_HISTORY_SIZE),
              !.history = SubSeq(@, 1, Min(Len(@), Max(size, MIN_HISTORY_SIZE)))]

SetHistorySize(s, size) ==
    [s EXCEPT !.maxHistorySize = Max(size, MIN_HISTORY_SIZE),
              !.history = EraseOldest(@, Max(size, MIN_HISTORY_SIZE))]

CalibrateTemperature(s, offset) == [s EXCEPT !.tempOffset = offset]

CalibrateHumidity(s, offset) == [s EXCEPT !.humidityOffset = offset]

CalibratePressure(s, offset) == [s EXCEPT !.pressureOffset = offset]

SetBatteryLevel_RewritesHistory(s, level) ==
    LET l == Constrain(level, PERCENT_MIN, PERCENT_MAX)
    IN [s EXCEPT !.batteryLevel = l,
                 !.currentReading.batteryLevel = l,
                 !.history = [i \in DOMAIN @ |->
                                IF i = Len(@) THEN [@[i] EXCEPT !.batteryLevel = l]
                                ELSE @[i]]]

SetBatteryLevel_Unclamped(s, level) ==
    [s EXCEPT !.batteryLevel = level, !.currentReading.batteryLevel = level]

SetBatteryLevel(s, level) ==
    LET l == Constrain(level, PERCENT_MIN, PERCENT_MAX)
    IN [s EXCEPT !.batteryLevel = l, !.currentReading.batteryLevel = l]

----------------------------------------------------------------------------
(* The operations of the host on the telemetry engine.                     *)

\* Everything of the connectivity state machine but the clock.
wifiVars == <<machineVars, prefs, driverVars, phase, op, notif, calls,
              connFires, exhausted, attemptsSinceLoss, pending, linkNotif>>

SensorCur ==
    [f \in DOMAIN sensorManager
              \cup {"now", "currentTime", "trials", "appended"} |->
        CASE f = "now" -> now
          [] f = "currentTime" -> now
          [] f = "trials" -> 0
          [] f = "appended" -> << >>
          [] OTHER -> sensorManager[f]]

\* The fields of the object after an operation, and what the observer adds
\* to its records: the readings appended, and the end of a cleared window
\* with the first new reading.
SensorCommit(s) ==
    /\ sensorManager' = [f \in DOMAIN sensorManager |-> s[f]]
    /\ produced' = produced \o s.appended
    /\ clearedWindow' = IF s.appended # << >> THEN << >> ELSE clearedWindow

\* The inputs of the calls.
HistorySizes == {-3, 0, MIN_HISTORY_SIZE, MIN_HISTORY_SIZE + 2, SENSOR_HISTORY_SIZE}
SensorSteps == {SENSOR_UPDATE_INTERVAL \div 2, SENSOR_UPDATE_INTERVAL}
SensorNearWrap == ULONG_MOD - SENSOR_UPDATE_INTERVAL
LongInterval == SensorNearWrap
UpdateIntervals == {0, SENSOR_UPDATE_INTERVAL, LongInterval}
BatteryLevels == {-100, PERCENT_MAX + 2000}
BatterySettings == BatteryLevels \cup {BATTERY_RECHARGE_RATE \div 2}
CalibrationOffsets == {-150}
LargeOffsets == {-(HUMIDITY_BASE + HUMIDITY_VARIATION)}
EnableInputs == {<<"M", "o", "t", "i", "o", "n">>, <<"l", "a", "m", "p">>}

\* The longest runs of the specifications of the engine, in samples, and the
\* number of gusts in a run.
WindowSamples == 61
LongRunSamples == 4
StatsSamples == 11
MaxGusts == 1
MotionSamples == 5
FrameSamples == 5
ReadingSamples == 2
BatterySamples == 23
BatterySetSamples == 2

SensorTimeLeft(d, horizon) == now >= SensorNearWrap \/ now + d <= horizon

SensorBeginCall ==
    /\ sensorPhase = "constructed"
    /\ SensorCommit(SensorBegin(SensorCur))
    /\ sensorPhase' = "running"
    /\ sensorOp' = SensorOpRecord("begin", 0, sensorManager, 0, now, ZeroStats)
    /\ UNCHANGED <<wifiVars, buttonVars, now>>

\* One iteration of the host loop: d ms after the previous one, update runs.
\* A run is followed for the time of so many samples (and again after the
\* clock has come close to its wrap-around), and up to so many readings.
UpdateWith(steps, draws, trials, samples) ==
    /\ sensorPhase = "running"
    /\ Len(produced) < samples
    /\ \E d \in steps, dr \in draws, trial \in trials :
         /\ SensorTimeLeft(d, samples * SENSOR_UPDATE_INTERVAL)
         /\ LET s0 == [SensorCur EXCEPT !.now = UAdd(now, d)]
                s == Update(s0, dr, trial)
            IN /\ SensorCommit(s)
               /\ now' = s.now
               /\ sensorOp' = SensorOpRecord("update", 0, sensorManager,
                                             s.trials, s0.now, ZeroStats)
    /\ UNCHANGED <<wifiVars, buttonVars, sensorPhase>>

SetHistorySizeCall ==
    /\ sensorPhase = "running"
    /\ \E n \in HistorySizes :
         /\ SensorCommit(SetHistorySize(SensorCur, n))
         /\ sensorOp' = SensorOpRecord("setHistorySize", n, sensorManager, 0, now,
                                       ZeroStats)
    /\ UNCHANGED <<wifiVars, buttonVars, now, sensorPhase>>

SetUpdateIntervalCall ==
    /\ sensorPhase = "running"
    /\ \E i \in UpdateIntervals :
         /\ SensorCommit(SetUpdateInterval(SensorCur, i))
         /\ sensorOp' = SensorOpRecord("setUpdateInterval", i, sensorManager, 0, now,
                                       ZeroStats)
    /\ UNCHANGED <<wifiVars, buttonVars, now, sensorPhase>>

\* No sample is due before the clock is close to its wrap-around: the
\* iterations of the host loop until then find nothing to do but the end of
\* an active motion, which the next update does as well.
SensorLongUptime ==
    /\ sensorPhase = "running"
    /\ now < SensorNearWrap
    /\ USub(SensorNearWrap, sensorManager.lastUpdate) <= sensorManager.updateInterval
    /\ now' = SensorNearWrap
    /\ sensorOp' = SensorOpRecord("environment", 0, sensorManager, 0, now, ZeroStats)
    /\ UNCHANGED <<wifiVars, buttonVars, sensorManager, sensorPhase, produced, clearedWindow>>

GetStatisticsCall ==
    /\ sensorPhase = "running"
    /\ LET r == GetStatistics(SensorCur)
       IN /\ SensorCommit(r.st)
          /\ sensorOp' = SensorOpRecord("getStatistics", 0, sensorManager, 0, now,
                                        r.ret)
    /\ UNCHANGED <<wifiVars, buttonVars, now, sensorPhase>>

ClearHistoryCall ==
    /\ sensorPhase = "running"
    /\ sensorManager' = [f \in DOMAIN sensorManager |-> ClearHistory(SensorCur)[f]]
    /\ clearedWindow' = sensorManager.history
    /\ sensorOp' = SensorOpRecord("clearHistory", 0, sensorManager, 0, now, ZeroStats)
    /\ UNCHANGED <<wifiVars, buttonVars, now, sensorPhase, produced>>

ResetStatisticsCall ==
    /\ sensorPhase = "running"
    /\ SensorCommit(ResetStatistics(SensorCur))
    /\ sensorOp' = SensorOpRecord("resetStatistics", 0, sensorManager, 0, now,
                                  ZeroStats)
    /\ UNCHANGED <<wifiVars, buttonVars, now, sensorPhase>>

CalibrateWith(offsets) ==
    /\ sensorPhase = "running"
    /\ \E offset \in offsets :
         \/ /\ SensorCommit(CalibrateTemperature(SensorCur, offset))
            /\ sensorOp' = SensorOpRecord("calibrateTemperature", offset,
                                          sensorManager, 0, now, ZeroStats)
         \/ /\ SensorCommit(CalibrateHumidity(SensorCur, offset))
            /\ sensorOp' = SensorOpRecord("calibrateHumidity", offset,
                                          sensorManager, 0, now, ZeroStats)
         \/ /\ SensorCommit(CalibratePressure(SensorCur, offset))
            /\ sensorOp' = SensorOpRecord("calibratePressure", offset,
                                          sensorManager, 0, now, ZeroStats)
    /\ UNCHANGED <<wifiVars, buttonVars, now, sensorPhase>>

CalibrateCall == CalibrateWith(CalibrationOffsets)

SetBatteryLevelWith(levels) ==
    /\ sensorPhase = "running"
    /\ \E level \in levels :
         /\ SensorCommit(SetBatteryLevel(SensorCur, level))
         /\ sensorOp' = SensorOpRecord("setBatteryLevel", level, sensorManager, 0,
                                       now, ZeroStats)
    /\ UNCHANGED <<wifiVars, buttonVars, now, sensorPhase>>

SetBatteryLevelCall == SetBatteryLevelWith(BatteryLevels)

EnableSensorCall ==
    /\ sensorPhase = "running"
    /\ \E name \in EnableInputs, enabled \in BOOLEAN :
         /\ SensorCommit(EnableSensor(SensorCur, name, enabled))
         /\ sensorOp' = SensorOpRecord("enableSensor", 0, sensorManager, 0, now,
                                       ZeroStats)
    /\ UNCHANGED <<wifiVars, buttonVars, now, sensorPhase>>

\* The bounded history under a steady stream of samples: one sample per
\* iteration, the same draw every time, with resizes and a long interval.
WindowUpdate == UpdateWith({SENSOR_UPDATE_INTERVAL}, {Calm}, {FALSE}, WindowSamples)

WindowNext ==
    \/ SensorBeginCall
    \/ WindowUpdate
    \/ SetHistorySizeCall

WindowSpec == Init /\ [][WindowNext]_vars

\* A long run: the samples come in a steady stream or, under a long update
\* interval, not at all, and the clock reaches its wrap-around.
LongRunUpdate == UpdateWith({SENSOR_UPDATE_INTERVAL}, {Calm}, {FALSE}, LongRunSamples)

LongRunNext ==
    \/ SensorBeginCall
    \/ LongRunUpdate
    \/ SetUpdateIntervalCall
    \/ SensorLongUptime

LongRunSpec == Init /\ [][LongRunNext]_vars

\* The statistics of the window: the readings are calm but for a few gusts,
\* and the host resizes, reads, resets and clears between the samples.
GustReading(r) == r.humidity < HUMIDITY_BASE

Gusts(seq) == Cardinality({i \in DOMAIN seq : GustReading(seq[i])})

CalmUpdate == UpdateWith({SENSOR_UPDATE_INTERVAL}, {Calm}, {FALSE}, StatsSamples)

GustUpdate ==
    /\ Gusts(produced) < MaxGusts
    /\ UpdateWith({SENSOR_UPDATE_INTERVAL}, {Gust}, {FALSE}, StatsSamples)

StatsNext ==
    \/ SensorBeginCall
    \/ CalmUpdate
    \/ GustUpdate
    \/ SetHistorySizeCall
    \/ GetStatisticsCall
    \/ ClearHistoryCall
    \/ ResetStatisticsCall

StatsSpec == Init /\ [][StatsNext]_vars

\* The motion detector: every sample asks for a trial or not, the host loop
\* comes round once or twice per update interval, and the host enables and
\* disables sensors.
MotionUpdate == UpdateWith(SensorSteps, {Calm, Late}, BOOLEAN, MotionSamples)

MotionNext ==
    \/ SensorBeginCall
    \/ MotionUpdate
    \/ EnableSensorCall

MotionSpec == Init /\ [][MotionNext]_vars

\* The calls that do not concern the history: a slow host loop, which comes
\* round once per motion duration, and a host that calibrates, sets the
\* battery level, enables and disables sensors and resets the statistics
\* between the iterations.
FrameUpdate == UpdateWith({MOTION_DURATION_MS}, {Calm}, BOOLEAN, FrameSamples)

FrameNext ==
    \/ SensorBeginCall
    \/ FrameUpdate
    \/ ResetStatisticsCall
    \/ CalibrateCall
    \/ SetBatteryLevelCall
    \/ EnableSensorCall

FrameSpec == Init /\ [][FrameNext]_vars

\* The reported values: samples with a quiet generator, with a gust at
\* midday and with negative noise, and a host that calibrates by more than
\* the range of a channel.
ReadingUpdate ==
    UpdateWith({SENSOR_UPDATE_INTERVAL}, {Calm, Gust, Lull}, {FALSE}, ReadingSamples)

LargeCalibrate == CalibrateWith(LargeOffsets)

ReadingNext ==
    \/ SensorBeginCall
    \/ ReadingUpdate
    \/ LargeCalibrate

ReadingSpec == Init /\ [][ReadingNext]_vars

\* The battery: a steady stream of samples, long enough for a recharge from
\* empty to full, and a host that sets the level, to any value, before the
\* first samples.
BatteryUpdate ==
    UpdateWith({SENSOR_UPDATE_INTERVAL}, {Calm}, {FALSE}, BatterySamples)

EarlySetBatteryLevel ==
    /\ Len(produced) < BatterySetSamples
    /\ SetBatteryLevelWith(BatterySettings)

BatteryNext ==
    \/ SensorBeginCall
    \/ BatteryUpdate
    \/ EarlySetBatteryLevel

BatterySpec == Init /\ [][BatteryNext]_vars

----------------------------------------------------------------------------
(* The properties of the telemetry engine.                                 *)

\* The last n elements of a sequence.
LastN(seq, n) == SubSeq(seq, Len(seq) - n + 1, Len(seq))

\* C24: the history is never longer than the current capacity after an
\* operation has returned, and right after setHistorySize(n) it is at most
\* max(n, 10) long.
C24_HistoryWithinCapacity ==
    /\ Len(sensorManager.history) <= sensorManager.maxHistorySize
    /\ sensorOp.name = "setHistorySize" =>
          Len(sensorManager.history) <= Max(sensorOp.arg, 10)

\* An update found the history full at the default capacity and left it full.
C24_Witness ==
    /\ sensorOp.name = "update"
    /\ sensorManager.maxHistorySize = SENSOR_HISTORY_SIZE
    /\ Len(sensorOp.historyBefore) = SENSOR_HISTORY_SIZE
    /\ Len(sensorManager.history) = SENSOR_HISTORY_SIZE
    /\ sensorManager.history # sensorOp.historyBefore

\* C25: with capacity N and no clear or resize, the history after k samples
\* is the last min(k, N) samples in the order they were produced, and their
\* timestamps do not decrease.
C25_HistoryIsFifoRing ==
    LET h == sensorManager.history
    IN /\ h = LastN(produced, Min(Len(produced), sensorManager.maxHistorySize))
       /\ \A i \in 1..(Len(h) - 1) : h[i].timestamp <= h[i + 1].timestamp

\* C28: setHistorySize(n) sets the capacity to max(n, 10) for every integer
\* n, and the history it leaves is the newest entries of the history it
\* found, as many as fit, in their order.
C28_SetHistorySizeFloorsAndTrimsOldest ==
    sensorOp.name = "setHistorySize" =>
       LET capacity == IF sensorOp.arg > 10 THEN sensorOp.arg ELSE 10
           before == sensorOp.historyBefore
       IN /\ sensorManager.maxHistorySize = capacity
          /\ sensorManager.history = LastN(before, Min(Len(before), capacity))

\* setHistorySize was called with a size that is not positive, on a history
\* of more than ten entries.
C28_Witness ==
    /\ sensorOp.name = "setHistorySize"
    /\ sensorOp.arg <= 0
    /\ Len(sensorOp.historyBefore) > 10
    /\ Len(sensorManager.history) = 10

\* The minimum, maximum and average of each continuous channel over a
\* window of readings, each computed from the set or the sum of its values.
Smallest(S) == CHOOSE x \in S : \A y \in S : x <= y

Largest(S) == CHOOSE x \in S : \A y \in S : x >= y

ChannelValues(window, channel) == {window[i][channel] : i \in DOMAIN window}

WindowAverage(window, channel) ==
    Average(ScanSum(window, channel, 0), Len(window))

WindowStatistics(window) ==
    [minTemperature |-> Smallest(ChannelValues(window, "temperature")),
     maxTemperature |-> Largest(ChannelValues(window, "temperature")),
     avgTemperature |-> WindowAverage(window, "temperature"),
     minHumidity |-> Smallest(ChannelValues(window, "humidity")),
     maxHumidity |-> Largest(ChannelValues(window, "humidity")),
     avgHumidity |-> WindowAverage(window, "humidity"),
     minPressure |-> Smallest(ChannelValues(window, "pressure")),
     maxPressure |-> Largest(ChannelValues(window, "pressure")),
     avgPressure |-> WindowAverage(window, "pressure"),
     minLightLevel |-> Smallest(ChannelValues(window, "lightLevel")),
     maxLightLevel |-> Largest(ChannelValues(window, "lightLevel")),
     avgLightLevel |-> WindowAverage(window, "lightLevel")]

\* The min/max/avg part of a SensorStats.
ContinuousStatistics(stats) ==
    [f \in DOMAIN WindowStatistics(<<ZeroReading>>) |-> stats[f]]

\* C26: whenever the history is not empty, the statistics getStatistics
\* returns are the minimum, maximum and average of each continuous channel
\* over exactly the readings the history retains.
C26_StatisticsReflectWindow ==
    (sensorOp.name = "getStatistics" /\ sensorManager.history # << >>) =>
       ContinuousStatistics(sensorOp.ret) = WindowStatistics(sensorManager.history)

\* C27: after clearHistory and until a new reading is produced,
\* getStatistics does not return the min/max/avg of the window that existed
\* before the clear.
C27_ClearedWindowIsNotReported ==
    (sensorOp.name = "getStatistics" /\ clearedWindow # << >>) =>
       ContinuousStatistics(sensorOp.ret) # WindowStatistics(clearedWindow)

\* The calls that the history does not concern.
FrameCalls ==
    {"resetStatistics", "calibrateTemperature", "calibrateHumidity",
     "calibratePressure", "setBatteryLevel", "enableSensor"}

\* C29: a retained reading is never modified.  The history an operation
\* leaves is a tail of the history it found, with at most one new reading
\* after it; resetStatistics, the calibrations, setBatteryLevel and
\* enableSensor leave the history as it was, and so does the update that
\* ends an active motion, but for the reading it appends.
C29_RetainedReadingsUnchanged ==
    LET before == sensorOp.historyBefore
        h == sensorManager.history
    IN /\ \E n \in 0..Len(before) :
             \/ h = LastN(before, n)
             \/ /\ Len(h) = n + 1
                /\ SubSeq(h, 1, n) = LastN(before, n)
                /\ produced # << >>
                /\ h[n + 1] = produced[Len(produced)]
       /\ sensorOp.name \in FrameCalls => h = before
       /\ (sensorOp.name = "update" /\ sensorOp.motionBefore.active
             /\ ~sensorManager.motionActive) =>
             SubSeq(h, 1, Len(before)) = before

\* setBatteryLevel changed the battery level of the current reading while
\* the history holds the reading with the level it was taken at.
C29_Witness ==
    /\ sensorOp.name = "setBatteryLevel"
    /\ sensorManager.history # << >>
    /\ sensorManager.currentReading.batteryLevel
          # sensorManager.history[Len(sensorManager.history)].batteryLevel

\* C30: the motion event counter changes only by one, in an update that
\* found no motion active, asked for a trial and recorded motion in the
\* reading it took; an update that finds motion active asks for no trial and
\* leaves the counter, the start time and the time of the last event as they
\* were.
C30_MotionCountedOnActivationOnly ==
    LET before == sensorOp.motionBefore
        after == MotionState(sensorManager)
    IN /\ after.count # before.count =>
             /\ sensorOp.name = "update"
             /\ ~before.active
             /\ sensorManager.history # << >>
             /\ sensorManager.history[Len(sensorManager.history)].motionDetected
             /\ sensorOp.trials = 1
             /\ after.count = before.count + 1
       /\ (sensorOp.name = "update" /\ before.active) =>
             /\ sensorOp.trials = 0
             /\ after.count = before.count
             /\ after.startTime = before.startTime
             /\ after.lastEvent = before.lastEvent

\* An update took a sample, with the motion sensor enabled, while motion
\* was active.
C30_Witness ==
    /\ sensorOp.name = "update"
    /\ sensorOp.motionBefore.active
    /\ sensorManager.motionEnabled
    /\ Len(sensorManager.history) > Len(sensorOp.historyBefore)

\* C31: in an update that finds motion active or triggers it, with the start
\* time t, motion is active afterwards exactly when the tick is before
\* t + MOTION_DURATION_MS: it stays active in every earlier tick, the
\* triggering tick included, and the first tick at or after that time
\* clears it.
C31_MotionLastsForDuration ==
    LET before == sensorOp.motionBefore
        after == MotionState(sensorManager)
    IN (sensorOp.name = "update"
            /\ (before.active \/ after.count # before.count)) =>
          (after.active <=> sensorOp.t < after.startTime + MOTION_DURATION_MS)

\* C32: the battery level of the engine, of its current reading, of every
\* retained reading and of every reading produced so far is within
\* [0, 100] percent.
InPercentRange(x) == PERCENT_MIN <= x /\ x <= PERCENT_MAX

C32_BatteryLevelWithinRange ==
    /\ InPercentRange(sensorManager.batteryLevel)
    /\ InPercentRange(sensorManager.currentReading.batteryLevel)
    /\ \A i \in DOMAIN sensorManager.history :
          InPercentRange(sensorManager.history[i].batteryLevel)
    /\ \A i \in DOMAIN produced : InPercentRange(produced[i].batteryLevel)

\* The level was set, recharged from below the threshold up to the upper
\* limit, where the clamp cut the last step short, and drained again.
C32_Witness ==
    /\ sensorOp.name = "update"
    /\ \E i \in DOMAIN produced :
          /\ i > 1 /\ i < Len(produced)
          /\ produced[i].batteryLevel = PERCENT_MAX
          /\ produced[i - 1].batteryLevel
                 > PERCENT_MAX - BATTERY_RECHARGE_RATE
          /\ produced[i + 1].batteryLevel = PERCENT_MAX - BATTERY_DRAIN_RATE

\* C33: every reading produced has its humidity and its light level within
\* [0, 100] percent.
C33_HumidityAndLightWithinRange ==
    \A i \in DOMAIN produced :
        /\ InPercentRange(produced[i].humidity)
        /\ InPercentRange(produced[i].lightLevel)

\* C34: connected and disconnected notifications alternate: every
\* notification of a link change an operation fires differs from the one
\* fired before it, and a disconnected notification is never the first.
C34_LinkNotificationsAlternate == linkNotif.ok

\* The link driver never refuses to start the access point: only the steps
\* in which every WiFi.softAP call succeeded are taken.
ReliableNext == Next /\ ~SoftAPRefused'

ReliableSpec == Init /\ [][ReliableNext]_vars

\* C35: after begin has returned, and until end, the machine is connected,
\* or its access point is active, or reconnection is armed, whenever an
\* operation has returned.
C35_ReachableOrRecovering ==
    phase = "running" => (_isConnected \/ _isAPActive \/ _shouldReconnect)

\* C36: whenever the machine is a connected client (isConnected(): the flag
\* is set and the link is up), the credential store holds the credentials in
\* memory, with which the link was initiated.
C36_StoreHoldsCredentialsOfLink ==
    (_isConnected /\ link = "up") =>
        /\ PrefsGetString(prefs, PREF_WIFI_SSID, EmptyString) = _connectedSSID
        /\ PrefsGetString(prefs, PREF_WIFI_PASSWORD, EmptyString)
               = _connectedPassword

\* C37: no operation asks the link driver to join a network with an empty
\* SSID: neither connectToWiFi nor a reconnection attempt of handleClient.
C37_NoAttemptWithEmptySSID ==
    \A i \in DOMAIN calls : calls[i].f = "begin" => calls[i].ssid # EmptyString

\* C38: an operation whose request to start the access point the link
\* driver refused, and did not accept on a second request, leaves the access
\* point inactive and the DNS service stopped and fires no
\* access-point-started notification; and every startAccessPoint call that
\* finds the access point inactive, after a refusal as well, asks the driver.
C38_RefusedStartLeavesInactiveAndRetries ==
    [][/\ (SoftAPRefused' /\ ~(\E i \in DOMAIN calls' :
                                   calls'[i].f = "softAP" /\ calls'[i].ok)) =>
             /\ ~_isAPActive'
             /\ ~dnsRunning'
             /\ Count(notif', "apStarted") = 0
       /\ (op'.name = "startAccessPoint" /\ ~_isAPActive) =>
             HasCall(calls', "softAP")]_vars

\* startAccessPoint was called and the driver refused.
C38_Witness ==
    /\ op.name = "startAccessPoint"
    /\ SoftAPRefused
    /\ ~_isAPActive

----------------------------------------------------------------------------
(* The wait loop of connectToWiFi, iteration by iteration.                 *)

\* One iteration: the condition holds and delay(500) returns.
WaitPoll ==
    /\ phase = "running"
    /\ pending.active
    /\ WaitLoopContinues(Cur, pending.t)
    /\ now' = UAdd(now, WAIT_POLL_MS)
    /\ UNCHANGED <<machineVars, prefs, driverVars, phase, op, notif, calls,
                   connFires, exhausted, attemptsSinceLoss, pending, linkNotif,
                   sensorVars,
                   buttonVars>>

\* The condition fails: the loop is left and connectToWiFi returns.
WaitReturn ==
    /\ pending.active
    /\ ~WaitLoopContinues(Cur, pending.t)
    /\ AsyncConnectFinish

\* The device idles until half a timeout before millis() wraps.
WaitNearWrap == ULONG_MOD - WIFI_CONNECT_TIMEOUT_MS \div 2

WaitLongUptime ==
    /\ phase = "running"
    /\ ~pending.active
    /\ now < NearWrap
    /\ now' = WaitNearWrap
    /\ op' = PlainOp("environment")
    /\ notif' = << >> /\ calls' = << >>
    /\ UNCHANGED <<machineVars, prefs, driverVars, phase,
                   connFires, exhausted, attemptsSinceLoss, pending, linkNotif,
                   sensorVars,
                   buttonVars>>

\* connectToWiFi is called within one timeout after the boot or after the
\* wrap-around of the clock, or shortly before the wrap-around.
WaitEnter ==
    /\ now >= NearWrap \/ now <= WIFI_CONNECT_TIMEOUT_MS
    /\ AsyncConnectStart

\* connectToWiFi is called from the host; nothing else runs while it waits
\* but the link, which may come up.  The loop is sequential code: its next
\* step is always taken, the clock advancing in delay.
WaitNext ==
    \/ BeginCall
    \/ WaitEnter
    \/ WaitPoll
    \/ WaitReturn
    \/ LinkUp
    \/ WaitLongUptime

WaitSpec == Init /\ [][WaitNext]_vars /\ WF_vars(WaitPoll \/ WaitReturn)

\* C39: a connectToWiFi call that has entered its wait loop returns; while
\* it waits no more than the timeout has elapsed since the attempt started,
\* and the loop does not let the clock advance once the link is up or the
\* timeout has elapsed.
C39_ConnectTerminates ==
    /\ [](pending.active => USub(now, pending.t) <= WIFI_CONNECT_TIMEOUT_MS)
    /\ [][(pending.active /\ (link = "up"
              \/ USub(now, pending.t) >= WIFI_CONNECT_TIMEOUT_MS)) => now' = now]_vars
    /\ (pending.active ~> ~pending.active)

\* A call has returned after its timeout, which the clock crossed its
\* wrap-around in.
C39_Witness ==
    /\ op.name = "connectToWiFi"
    /\ ~op.ret
    /\ ~pending.active
    /\ now < WIFI_CONNECT_TIMEOUT_MS

----------------------------------------------------------------------------
(* The button of the host, main.cpp.                                       *)

\* What handleButton does with the variables b when it reads the pin level
\* `current` at time t, and which branch of the release it takes.  Both
\* reads of the clock in the debounce test give t.
ButtonDebounceTime(b, current, t) ==
    IF current # b.lastButtonState THEN t ELSE b.buttonDebounceTime

ButtonStable(b, current, t) ==
    USub(t, ButtonDebounceTime(b, current, t)) > BUTTON_DEBOUNCE_MS

ButtonPressEdge(b, current, t) ==
    ButtonStable(b, current, t) /\ current = LOW /\ b.lastButtonState = HIGH

ButtonReleaseEdge(b, current, t) ==
    ButtonStable(b, current, t) /\ current = HIGH /\ b.lastButtonState = LOW

\* A press edge and a release edge exclude each other, so buttonPressed at
\* the release is the variable as the call found it.
ButtonOutcome(b, current, t) ==
    IF ~(ButtonReleaseEdge(b, current, t) /\ b.buttonPressed) THEN "none"
    ELSE IF USub(t, b.buttonPressTime) >= BUTTON_VERY_LONG_PRESS_MS
         THEN "factoryReset"
    ELSE IF USub(t, b.buttonPressTime) >= BUTTON_LONG_PRESS_MS THEN "wifiReset"
    ELSE "toggle"

HandleButton(b, current, t) ==
    [lastButtonState |-> current,
     buttonDebounceTime |-> ButtonDebounceTime(b, current, t),
     buttonPressed |->
         IF ButtonPressEdge(b, current, t) THEN TRUE
         ELSE IF ButtonOutcome(b, current, t) # "none" THEN FALSE
         ELSE b.buttonPressed,
     buttonPressTime |->
         IF ButtonPressEdge(b, current, t) THEN t ELSE b.buttonPressTime,
     ledState |->
         IF ButtonOutcome(b, current, t) = "toggle" THEN ~b.ledState
         ELSE b.ledState]

\* The host loop comes round often: after a time shorter than the debounce
\* time, or a little longer.
ButtonFastStep == BUTTON_DEBOUNCE_MS + LOOP_DELAY_MS
ButtonSteps == {ButtonFastStep \div 2, ButtonFastStep}

\* A run is followed for so many short iterations before the press and
\* after the release, and for a press a little longer than a very long one.
ButtonIdleCalls == 2
ButtonSettleCalls == 3
MaxHeld == BUTTON_VERY_LONG_PRESS_MS + 2 * ButtonFastStep

ButtonTimeLeft(d) ==
    CASE press.phase = "idle" -> now + d <= ButtonIdleCalls * ButtonFastStep
      [] press.phase = "held" -> press.held + d <= MaxHeld
      [] OTHER -> press.since + d <= ButtonSettleCalls * ButtonFastStep

\* What the observer notes of a handleButton call d ms after the last one.
Timed(p, d, outcome) ==
    [phase |-> p.phase,
     held |-> IF p.phase = "held" THEN p.held + d ELSE p.held,
     since |-> IF p.phase = "released" THEN p.since + d ELSE p.since,
     outcome |-> IF outcome # "none" THEN outcome ELSE p.outcome]

\* One iteration of the host loop: d ms after the previous one, handleButton
\* runs.  A long press resets the WiFi settings and restarts the device, a
\* very long press does the same after clearing the host's preferences.
HandleButtonCall ==
    /\ phase = "running"
    /\ \E d \in ButtonSteps, apOk \in BOOLEAN :
         /\ ButtonTimeLeft(d)
         /\ press' = Timed(press, d, ButtonOutcome(button, pin, UAdd(now, d)))
         /\ IF ButtonOutcome(button, pin, UAdd(now, d))
                   \in {"wifiReset", "factoryReset"}
            THEN RestartFrom(
                     ResetWiFiSettings([Cur EXCEPT !.now = UAdd(now, d)], apOk).prefs)
            ELSE /\ button' = HandleButton(button, pin, UAdd(now, d))
                 /\ now' = UAdd(now, d)
                 /\ UNCHANGED <<wifiVars, sensorVars>>
    /\ UNCHANGED pin

\* The user presses the button, once, and lets it go.
ButtonPress ==
    /\ phase = "running"
    /\ pin = HIGH /\ press.phase = "idle"
    /\ pin' = LOW
    /\ press' = [press EXCEPT !.phase = "held"]
    /\ UNCHANGED <<wifiVars, now, sensorVars, button>>

ButtonRelease ==
    /\ phase = "running"
    /\ pin = LOW
    /\ pin' = HIGH
    /\ press' = [press EXCEPT !.phase = "released"]
    /\ UNCHANGED <<wifiVars, now, sensorVars, button>>

ButtonNext ==
    \/ BeginCall
    \/ HandleButtonCall
    \/ ButtonPress
    \/ ButtonRelease

ButtonSpec == Init /\ [][ButtonNext]_vars

\* What handleButton is to do for a press that lasted `held` ms, the edges
\* being seen up to two short iterations late; a press shorter than that
\* may go unnoticed.
ExpectedOutcomes(held) ==
    {o \in {"none", "toggle", "wifiReset", "factoryReset"} :
        \/ o = "none" /\ held < 2 * ButtonFastStep
        \/ o = "toggle" /\ held - 2 * ButtonFastStep < BUTTON_LONG_PRESS_MS
        \/ o = "wifiReset" /\ held + 2 * ButtonFastStep >= BUTTON_LONG_PRESS_MS
                           /\ held - 2 * ButtonFastStep < BUTTON_VERY_LONG_PRESS_MS
        \/ o = "factoryReset"
              /\ held + 2 * ButtonFastStep >= BUTTON_VERY_LONG_PRESS_MS}

\* C40: once the button has been released and handleButton has been called
\* for longer than two debounce times since, handleButton has done for the
\* press what its duration asks for: the LED toggled, the WiFi settings
\* reset or the factory reset.
C40_ButtonPressIsActedOn ==
    (press.phase = "released" /\ press.since > 2 * BUTTON_DEBOUNCE_MS) =>
        press.outcome \in ExpectedOutcomes(press.held)

====
